---- MODULE Spec2Model ----
(***************************************************************************)
(* A model of the SaaS companies backend (src/index.js): an Express server *)
(* over MongoDB collections.  Every route handler is one action; the       *)
(* handler's try/catch, its database operations and its response are part  *)
(* of that action.                                                         *)
(*                                                                         *)
(* JavaScript strings on which the code computes (startsWith, match, trim, *)
(* toLowerCase, sort) are sequences of one-character strings.  Strings     *)
(* that are only compared for equality (tickers, category names) are TLA+  *)
(* strings.  JavaScript numbers are tagged records, so that undefined,     *)
(* null, 0 and the strings toFixed returns stay distinct.                  *)
(***************************************************************************)
EXTENDS Integers, Sequences, FiniteSets, TLC

\* ------------------------------------------------------------------------
\* Bounds of the model

MaxRegions == 3       \* regions of a generated regions array
MaxDate == 2          \* statement and market-cap entries are dated 1..MaxDate
MaxCategories == 2    \* categories of a generated United States region
MaxRequests == 3      \* requests in flight together

\* ------------------------------------------------------------------------
\* JavaScript values

\* An absent string-valued property (undefined)
Undefined == <<"undefined">>

\* `!s` for a string-or-undefined value
Falsy(s) == s = Undefined \/ s = <<>>

JsUndefined == [t |-> "undefined", v |-> 0]
JsNull == [t |-> "null", v |-> 0]
JsNum(n) == [t |-> "number", v |-> n]
\* the string Number.prototype.toFixed(2) returns: v hundredths
JsFixed2(h) == [t |-> "fixed2", v |-> h]
\* the string Number.prototype.toFixed(1) returns: v tenths
JsFixed1(d) == [t |-> "fixed1", v |-> d]
\* the string "NaN", which toFixed returns for NaN
JsNaNString == [t |-> "NaN", v |-> 0]

\* Truthiness of a numeric-or-absent value: undefined, null and 0 are falsy,
\* every string toFixed returns is non-empty, hence truthy
Truthy(x) == CASE x.t = "undefined" -> FALSE
               [] x.t = "null" -> FALSE
               [] x.t = "number" -> x.v # 0
               [] OTHER -> TRUE

\* a || b
Or(a, b) == IF Truthy(a) THEN a ELSE b

Abs(n) == IF n < 0 THEN -n ELSE n

\* (a / b).toFixed(2) for numbers a, b with b # 0: the quotient rounded to the
\* nearest hundredth, a tie going to the larger magnitude
DivFixed2(a, b) ==
    LET mag == (200 * Abs(a) + Abs(b)) \div (2 * Abs(b))
        neg == (a < 0) # (b < 0)
    IN  JsFixed2(IF neg THEN -mag ELSE mag)

\* (marketCap / d).toFixed(2) where marketCap may be undefined: undefined / d
\* is NaN and NaN.toFixed(2) is "NaN"
QuotientFixed2(marketCap, d) ==
    IF marketCap.t = "number" THEN DivFixed2(marketCap.v, d.v) ELSE JsNaNString

\* x for a stored number or an absent field, toFixed left out
NotFixed(x) == IF x.t = "number" THEN x ELSE JsUndefined

\* x?.toFixed(2) for a stored number or an absent field
OptFixed2(x) == IF x.t = "number" THEN JsFixed2(100 * x.v) ELSE JsUndefined

\* x?.toFixed(1)
OptFixed1(x) == IF x.t = "number" THEN JsFixed1(10 * x.v) ELSE JsUndefined

\* ------------------------------------------------------------------------
\* Strings as character sequences

\* The characters the model uses, in UTF-16 code unit order
CodeUnits == <<" ", "(", ")", "-", ".", "/", "1", "2", "@",
               "A", "B", "C", "D", "E", "I", "J", "K", "L", "N", "O", "Q",
               "S", "T", "U", "Y",
               "a", "b", "c", "d", "e", "g", "h", "i", "k", "l", "m", "n",
               "o", "p", "s", "t", "u", "w", "x", "y", "z">>

CodeUnit(c) == CHOOSE i \in 1..Len(CodeUnits) : CodeUnits[i] = c

IsWhitespace(c) == c = " "

\* String.prototype.startsWith
StartsWith(s, prefix) ==
    /\ Len(prefix) <= Len(s)
    /\ \A i \in 1..Len(prefix) : s[i] = prefix[i]

\* String.prototype.trim
RECURSIVE TrimStart(_)
TrimStart(s) ==
    IF s # <<>> /\ IsWhitespace(Head(s)) THEN TrimStart(Tail(s)) ELSE s

RECURSIVE TrimEnd(_)
TrimEnd(s) ==
    IF s # <<>> /\ IsWhitespace(s[Len(s)])
    THEN TrimEnd(SubSeq(s, 1, Len(s) - 1))
    ELSE s

Trim(s) == TrimEnd(TrimStart(s))

\* String.prototype.toLowerCase on the letters of the model
LowerChar(c) ==
    CASE c = "A" -> "a" [] c = "B" -> "b" [] c = "C" -> "c" [] c = "D" -> "d"
      [] c = "E" -> "e" [] c = "I" -> "i" [] c = "J" -> "j" [] c = "K" -> "k"
      [] c = "L" -> "l" [] c = "N" -> "n" [] c = "O" -> "o" [] c = "Q" -> "q"
      [] c = "S" -> "s" [] c = "T" -> "t" [] c = "U" -> "u" [] c = "Y" -> "y"
      [] OTHER -> c

ToLowerCase(s) == [i \in 1..Len(s) |-> LowerChar(s[i])]

\* s < t in code unit order, the order of Array.prototype.sort without a
\* comparator
RECURSIVE StrLess(_, _)
StrLess(s, t) ==
    IF t = <<>> THEN FALSE
    ELSE IF s = <<>> THEN TRUE
    ELSE IF Head(s) = Head(t) THEN StrLess(Tail(s), Tail(t))
    ELSE CodeUnit(Head(s)) < CodeUnit(Head(t))

\* ------------------------------------------------------------------------
\* Literals of the code

UnitedStates == <<"U", "n", "i", "t", "e", "d", " ", "S", "t", "a", "t", "e", "s">>
Unknown == <<"U", "n", "k", "n", "o", "w", "n">>
All == "All"
UnknownExchange == "Unknown Exchange"

\* A present, truthy property value that is not a string (a number stored where
\* a name is expected): calling a string method on it throws a TypeError
NotAString == <<"[number]">>

\* req.query.category when the request has no category parameter
NoCategory == "[undefined]"

\* An absent exchangeName
NoExchange == ""

\* ------------------------------------------------------------------------
\* State

VARIABLES
    cachedDb,                      \* cachedDb # null
    readyState,                    \* mongoose.connection.readyState
    saascompnies,                  \* what SaasCompany.findOne({}) finds
    incomeusa,                     \* the FinancialData collection
    valuation_metrics,             \* the ValuationMetrics collection
    notification_subscriptions,    \* the Notification collection
    metrics_update_subscriptions,  \* the MetricsNotification collection
    request,                       \* the request handled last
    responses,                     \* the responses sent for it, in order
    uncaught,                      \* an exception left its handler
    dbOps,                         \* the database operations it attempted
    before,                        \* the collections and connection before it
    pending,                       \* where each request in flight stands
    connects                       \* mongoose.connect calls since the last
                                   \* disconnect or failed attempt among them

vars == <<cachedDb, readyState, saascompnies, incomeusa, valuation_metrics,
          notification_subscriptions, metrics_update_subscriptions,
          request, responses, uncaught, dbOps, before, pending, connects>>

data == <<saascompnies, incomeusa, valuation_metrics>>

subscriptions == <<notification_subscriptions, metrics_update_subscriptions>>

\* The requests whose handlers are suspended at an await; a handler that is
\* served in one step leaves them alone
inFlight == <<pending, connects>>

served == <<request, responses, uncaught, dbOps, before>>

Requests == 1..MaxRequests

\* Failure points: the database operation that fails when the handler
\* attempts it (NoFail: none does)
NoFail == "none"

FailPoints == {"connect", "SaasCompany.findOne", "FinancialData.find",
               "ValuationMetrics.find", "FinancialData.findOne",
               "ValuationMetrics.findOne", "Notification.findOne",
               "Notification.save", "Notification.updateOne",
               "MetricsNotification.findOne", "MetricsNotification.save",
               "MetricsNotification.updateOne"}

\* ------------------------------------------------------------------------
\* connectToDatabase

\* The cached handle is reused while the connection is ready; otherwise
\* mongoose.connect is awaited, its result cached, its failure rethrown
connectToDatabase(fail) ==
    IF cachedDb /\ readyState = 1
    THEN [ok |-> TRUE, cachedDb |-> cachedDb, readyState |-> readyState,
          ops |-> <<>>]
    ELSE IF fail = "connect"
    THEN [ok |-> FALSE, cachedDb |-> cachedDb, readyState |-> 0,
          ops |-> <<"connect">>]
    ELSE [ok |-> TRUE, cachedDb |-> TRUE, readyState |-> 1,
          ops |-> <<"connect">>]

\* A query on model `name`: it is attempted (and logged) and fails when it is
\* the request's failure point
Attempt(ops, name) == Append(ops, name)

\* ------------------------------------------------------------------------
\* What a handler's try block ends with

Return(status, body, conn, ops) ==
    [kind |-> "return", status |-> status, body |-> body,
     cachedDb |-> conn.cachedDb, readyState |-> conn.readyState, ops |-> ops]

Throw(conn, ops) ==
    [kind |-> "throw", status |-> 0, body |-> [type |-> "none"],
     cachedDb |-> conn.cachedDb, readyState |-> conn.readyState, ops |-> ops]

Message(m) == [type |-> "message", message |-> m]

\* The catch block of a handler: a 500 response, nothing rethrown
CatchNothing(r) ==
    [responses |-> IF r.kind = "return"
                   THEN <<[status |-> r.status, body |-> r.body]>>
                   ELSE <<>>,
     uncaught |-> r.kind = "throw"]

Catch(r) ==
    [responses |-> IF r.kind = "return"
                   THEN <<[status |-> r.status, body |-> r.body]>>
                   ELSE <<[status |-> 500, body |-> Message("Server error")]>>,
     uncaught |-> FALSE]

Snapshot ==
    [notification_subscriptions |-> notification_subscriptions,
     metrics_update_subscriptions |-> metrics_update_subscriptions,
     cachedDb |-> cachedDb, readyState |-> readyState]

\* A read-only handler's step: the request, its outcome, the connection
Serve(req, r) ==
    /\ request' = req
    /\ \E caught \in {Catch(r)} :
        /\ responses' = caught.responses
        /\ uncaught' = caught.uncaught
    /\ dbOps' = r.ops
    /\ before' = Snapshot
    /\ cachedDb' = r.cachedDb
    /\ readyState' = r.readyState
    /\ UNCHANGED inFlight

\* ------------------------------------------------------------------------
\* GET /api/countries

Range(s) == {s[i] : i \in 1..Len(s)}

\* The longest prefix of s without "(": what /^([^(]+)/ captures, when it is
\* not empty
RECURSIVE BeforeParen(_)
BeforeParen(s) ==
    IF s = <<>> \/ Head(s) = "(" THEN <<>> ELSE <<Head(s)>> \o BeforeParen(Tail(s))

\* The callback of data.regions.map: "throw" stands for the TypeError of
\* calling match on a name that is not a string
CountryNameOf(region) ==
    IF Falsy(region.name) THEN Unknown
    ELSE IF region.name = NotAString THEN <<"throw">>
    ELSE IF BeforeParen(region.name) # <<>> THEN Trim(BeforeParen(region.name))
    ELSE Trim(region.name)

\* [...new Set(names)]: the first occurrence of each, in order
RECURSIVE KeepFirsts(_)
KeepFirsts(names) ==
    IF names = <<>> THEN <<>>
    ELSE LET init == KeepFirsts(SubSeq(names, 1, Len(names) - 1))
             last == names[Len(names)]
         IN  IF last \in Range(init) THEN init ELSE Append(init, last)

AllOf(names) == names

UniqueOf(names) == KeepFirsts(names)

\* Array.prototype.sort() of strings: ascending code unit order
RECURSIVE InsertSorted(_, _)
InsertSorted(x, sorted) ==
    IF sorted = <<>> THEN <<x>>
    ELSE IF StrLess(x, Head(sorted)) THEN <<x>> \o sorted
    ELSE <<Head(sorted)>> \o InsertSorted(x, Tail(sorted))

RECURSIVE SortStrings(_)
SortStrings(names) ==
    IF names = <<>> THEN <<>>
    ELSE InsertSorted(Head(names), SortStrings(Tail(names)))

\* .filter(Boolean)
RECURSIVE FilterTruthy(_)
FilterTruthy(names) ==
    IF names = <<>> THEN <<>>
    ELSE IF Falsy(Head(names)) THEN FilterTruthy(Tail(names))
    ELSE <<Head(names)>> \o FilterTruthy(Tail(names))

GetCountriesBody(fail) ==
    LET conn == connectToDatabase(fail)
        ops1 == Attempt(conn.ops, "SaasCompany.findOne")
    IN  IF ~conn.ok THEN Throw(conn, conn.ops)
        ELSE IF fail = "SaasCompany.findOne" THEN Throw(conn, ops1)
        ELSE IF ~saascompnies.exists
        THEN Return(404, [type |-> "countries", countries |-> <<>>], conn, ops1)
        ELSE IF ~saascompnies.hasRegions
        THEN Return(404, [type |-> "countries", countries |-> <<>>], conn, ops1)
        ELSE LET mapped == [i \in 1..Len(saascompnies.regions) |->
                               CountryNameOf(saascompnies.regions[i])]
             IN  IF <<"throw">> \in Range(mapped) THEN Throw(conn, ops1)
                 ELSE Return(200,
                             [type |-> "countries",
                              countries |->
                                  SortStrings(UniqueOf(FilterTruthy(mapped)))],
                             conn, ops1)

GetCountries(fails) ==
    \E fail \in fails :
      \E r \in {GetCountriesBody(fail)} :
        /\ Serve([route |-> "/api/countries", fail |-> fail], r)
        /\ UNCHANGED <<data, subscriptions>>

\* ------------------------------------------------------------------------
\* Region lookup: data.regions.find(region => region && region.name &&
\* region.name.startsWith(countryName))

\* String.prototype.includes, which the code does not use
RECURSIVE Includes(_, _)
Includes(s, part) ==
    IF StartsWith(s, part) THEN TRUE
    ELSE IF s = <<>> THEN FALSE
    ELSE Includes(Tail(s), part)

NameIncludes(name, countryName) == Includes(name, countryName)

NameMatches(name, countryName) == StartsWith(name, countryName)

\* The index of the first matching region; 0 when there is none, -1 when the
\* predicate throws on a name that is not a string before a region matches
RECURSIVE FindRegionFrom(_, _, _)
FindRegionFrom(regions, countryName, i) ==
    IF i > Len(regions) THEN 0
    ELSE IF Falsy(regions[i].name) THEN FindRegionFrom(regions, countryName, i + 1)
    ELSE IF regions[i].name = NotAString THEN -1
    ELSE IF NameMatches(regions[i].name, countryName) THEN i
    ELSE FindRegionFrom(regions, countryName, i + 1)

FindRegion(regions, countryName) == FindRegionFrom(regions, countryName, 1)

\* ------------------------------------------------------------------------
\* GET /api/country/:countryName

GetCountryBody(countryName, fail) ==
    LET conn == connectToDatabase(fail)
        ops1 == Attempt(conn.ops, "SaasCompany.findOne")
    IN  IF ~conn.ok THEN Throw(conn, conn.ops)
        ELSE IF fail = "SaasCompany.findOne" THEN Throw(conn, ops1)
        ELSE IF ~saascompnies.exists \/ ~saascompnies.hasRegions
        THEN Return(404, Message("No data found"), conn, ops1)
        ELSE LET i == FindRegion(saascompnies.regions, countryName)
             IN  IF i = -1 THEN Throw(conn, ops1)
                 ELSE IF i = 0
                 THEN Return(404, Message("Country not found"), conn, ops1)
                 ELSE Return(200, [type |-> "region",
                                   region |-> saascompnies.regions[i]],
                             conn, ops1)

GetCountry(countryNames, fails) ==
    \E countryName \in countryNames, fail \in fails :
      \E r \in {GetCountryBody(countryName, fail)} :
        /\ Serve([route |-> "/api/country/:countryName",
                  countryName |-> countryName, fail |-> fail], r)
        /\ UNCHANGED <<data, subscriptions>>

\* ------------------------------------------------------------------------
\* GET /api/categories/usa

GetCategoriesUsaBody(fail) ==
    LET conn == connectToDatabase(fail)
        ops1 == Attempt(conn.ops, "SaasCompany.findOne")
    IN  IF ~conn.ok THEN Throw(conn, conn.ops)
        ELSE IF fail = "SaasCompany.findOne" THEN Throw(conn, ops1)
        ELSE IF ~saascompnies.exists \/ ~saascompnies.hasRegions
        THEN Return(404, Message("No data found"), conn, ops1)
        ELSE LET i == FindRegion(saascompnies.regions, UnitedStates)
             IN  IF i = -1 THEN Throw(conn, ops1)
                 ELSE IF i = 0 \/ ~saascompnies.regions[i].hasCategories
                 THEN Return(404, Message("USA categories not found"), conn, ops1)
                 ELSE LET cats == saascompnies.regions[i].categories
                      IN  Return(200,
                                 [type |-> "categories",
                                  categories |->
                                      [k \in 1..Len(cats) |->
                                          IF cats[k].name = "" THEN "Unknown"
                                          ELSE cats[k].name]],
                                 conn, ops1)

GetCategoriesUsa(fails) ==
    \E fail \in fails :
      \E r \in {GetCategoriesUsaBody(fail)} :
        /\ Serve([route |-> "/api/categories/usa", fail |-> fail], r)
        /\ UNCHANGED <<data, subscriptions>>

\* ------------------------------------------------------------------------
\* Enrichment of the United States companies

\* An absent sub-document (growth_metrics, raw_values, valuation_multiples_raw)
NoGrowth == [has |-> FALSE, revenue_growth_pct |-> JsUndefined,
             gross_profit_growth_pct |-> JsUndefined,
             net_income_growth_pct |-> JsUndefined]
NoRaw == [has |-> FALSE, current_revenue |-> JsUndefined,
          current_grossProfit |-> JsUndefined,
          current_netIncome |-> JsUndefined]
NoMultiples == [has |-> FALSE, marketcap_to_revenue |-> JsUndefined,
                marketcap_to_netincome |-> JsUndefined,
                marketcap_to_grossprofit |-> JsUndefined]

\* financialDataMap[ticker] || {} and valuationMetricsMap[ticker] || {}
EmptyFinancialData ==
    [ticker |-> "", hasIncome |-> FALSE, income_statement |-> <<>>,
     hasMarketCap |-> FALSE, market_cap |-> <<>>]
EmptyValuationMetrics ==
    [ticker |-> "", market_cap |-> JsUndefined,
     latest_fiscal_year |-> JsUndefined, growth_metrics |-> NoGrowth,
     raw_values |-> NoRaw, valuation_multiples_raw |-> NoMultiples]

\* Model.find({ ticker: { $in: tickers } }).lean()
RECURSIVE FindByTickers(_, _)
FindByTickers(collection, tickers) ==
    IF collection = <<>> THEN <<>>
    ELSE IF Head(collection).ticker \in tickers
    THEN <<Head(collection)>> \o FindByTickers(Tail(collection), tickers)
    ELSE FindByTickers(Tail(collection), tickers)

\* The lookup map built by forEach: documents without a ticker are skipped,
\* a later document of the same ticker replaces an earlier one
RECURSIVE MapLookup(_, _, _)
MapLookup(docs, ticker, empty) ==
    IF docs = <<>> THEN empty
    ELSE LET d == docs[Len(docs)]
         IN  IF d.ticker # "" /\ d.ticker = ticker THEN d
             ELSE MapLookup(SubSeq(docs, 1, Len(docs) - 1), ticker, empty)

\* entries.sort((a, b) => new Date(b.date) - new Date(a.date)): a stable sort,
\* latest date first
RECURSIVE InsertByDateDesc(_, _)
InsertByDateDesc(x, sorted) ==
    IF sorted = <<>> THEN <<x>>
    ELSE IF Head(sorted).date >= x.date
    THEN <<Head(sorted)>> \o InsertByDateDesc(x, Tail(sorted))
    ELSE <<x>> \o sorted

RECURSIVE SortByDateDesc(_)
SortByDateDesc(entries) ==
    IF entries = <<>> THEN <<>>
    ELSE InsertByDateDesc(entries[Len(entries)],
                          SortByDateDesc(SubSeq(entries, 1, Len(entries) - 1)))

FirstAsStored(entries) == Head(entries)

LatestOf(entries) == Head(SortByDateDesc(entries))

\* latestIncomeStatement?.field when latestIncomeStatement is null
NoStatement == [date |-> 0, revenue |-> JsUndefined, grossProfit |-> JsUndefined,
                netIncome |-> JsUndefined, calendarYear |-> JsUndefined]

\* The precondition of the precomputed tier with both sub-documents required
NeedsBoth(valuationMetrics) ==
    valuationMetrics.growth_metrics.has /\ valuationMetrics.raw_values.has

\* valuationMetrics && (valuationMetrics.growth_metrics ||
\* valuationMetrics.raw_values): valuationMetrics is an object, hence truthy
UsePrecomputed(valuationMetrics) ==
    valuationMetrics.growth_metrics.has \/ valuationMetrics.raw_values.has

\* The financials of the precomputed tier
PrecomputedFinancials(valuationMetrics, latestIncomeStatement) ==
    LET raw == valuationMetrics.raw_values
        mult == valuationMetrics.valuation_multiples_raw
        growth == valuationMetrics.growth_metrics
    IN  [marketCap |-> valuationMetrics.market_cap,
         revenue |-> Or(raw.current_revenue, latestIncomeStatement.revenue),
         grossProfit |-> Or(raw.current_grossProfit,
                            latestIncomeStatement.grossProfit),
         netIncome |-> Or(raw.current_netIncome, latestIncomeStatement.netIncome),
         revenueGrowth |-> OptFixed1(growth.revenue_growth_pct),
         grossProfitGrowth |-> OptFixed1(growth.gross_profit_growth_pct),
         netIncomeGrowth |-> OptFixed1(growth.net_income_growth_pct),
         year |-> Or(valuationMetrics.latest_fiscal_year,
                     latestIncomeStatement.calendarYear),
         marketCapToRevenueMultiple |->
             Or(OptFixed2(mult.marketcap_to_revenue), JsNull),
         marketCapToNetIncomeMultiple |->
             Or(OptFixed2(mult.marketcap_to_netincome), JsNull),
         marketCapToGrossProfitMultiple |->
             Or(OptFixed2(mult.marketcap_to_grossprofit), JsNull),
         raw_values |-> raw,
         current_revenue |-> raw.current_revenue,
         current_grossProfit |-> raw.current_grossProfit,
         current_netIncome |-> raw.current_netIncome]

\* d ? (marketCap / d).toFixed(2) : null
AlwaysDivide(marketCap, d) ==
    IF d.t = "number" /\ d.v # 0 THEN QuotientFixed2(marketCap, d)
    ELSE IF d.t = "number" THEN [t |-> "Infinity", v |-> 0]
    ELSE JsNaNString

Multiple(marketCap, d) ==
    IF Truthy(d) THEN QuotientFixed2(marketCap, d) ELSE JsNull

\* The financials of the derived tier with the denominators of the revenue
\* and the net income multiples exchanged
DerivedFinancialsSwapped(latestIncomeStatement, latestMarketCap) ==
    LET marketCap == latestMarketCap.marketCap
        netIncome == latestIncomeStatement.netIncome
        grossProfit == latestIncomeStatement.grossProfit
        revenue == latestIncomeStatement.revenue
    IN  [marketCap |-> marketCap,
         revenue |-> revenue,
         grossProfit |-> grossProfit,
         netIncome |-> netIncome,
         marketCapToRevenueMultiple |-> Multiple(marketCap, netIncome),
         marketCapToNetIncomeMultiple |-> Multiple(marketCap, revenue),
         marketCapToGrossProfitMultiple |-> Multiple(marketCap, grossProfit),
         year |-> latestIncomeStatement.calendarYear]

\* The financials of the derived tier
DerivedFinancials(latestIncomeStatement, latestMarketCap) ==
    LET marketCap == latestMarketCap.marketCap
        netIncome == latestIncomeStatement.netIncome
        grossProfit == latestIncomeStatement.grossProfit
        revenue == latestIncomeStatement.revenue
    IN  [marketCap |-> marketCap,
         revenue |-> revenue,
         grossProfit |-> grossProfit,
         netIncome |-> netIncome,
         marketCapToRevenueMultiple |-> Multiple(marketCap, revenue),
         marketCapToNetIncomeMultiple |-> Multiple(marketCap, netIncome),
         marketCapToGrossProfitMultiple |-> Multiple(marketCap, grossProfit),
         year |-> latestIncomeStatement.calendarYear]

\* { ...company, financials }
WithFinancials(company, financials) ==
    [ticker |-> company.ticker, name |-> company.name,
     financials |-> financials]

WithEmptyFinancials(company) ==
    [ticker |-> company.ticker, name |-> company.name,
     financials |-> [marketCap |-> JsUndefined]]

Unchanged(company) == company

\* The callback of companies.map
Enrich(company, financialDataArray, valuationMetricsArray) ==
    LET financialData ==
            MapLookup(financialDataArray, company.ticker, EmptyFinancialData)
        valuationMetrics ==
            MapLookup(valuationMetricsArray, company.ticker,
                      EmptyValuationMetrics)
        hasStatement == financialData.hasIncome
                        /\ Len(financialData.income_statement) > 0
        hasCap == financialData.hasMarketCap
                  /\ Len(financialData.market_cap) > 0
        latestIncomeStatement ==
            IF hasStatement THEN LatestOf(financialData.income_statement)
            ELSE NoStatement
    IN  IF UsePrecomputed(valuationMetrics)
        THEN WithFinancials(company,
                 PrecomputedFinancials(valuationMetrics, latestIncomeStatement))
        ELSE IF hasStatement /\ hasCap
        THEN WithFinancials(company,
                 DerivedFinancials(latestIncomeStatement,
                                   LatestOf(financialData.market_cap)))
        ELSE Unchanged(company)

\* ------------------------------------------------------------------------
\* GET /api/companies/:countryName

\* countryName and 'United States' compared as prefixes either way round
IsUnitedPrefix(countryName) ==
    StartsWith(countryName, UnitedStates) \/ StartsWith(UnitedStates, countryName)

IsUnitedStates(countryName) == StartsWith(countryName, UnitedStates)

\* `category && category !== 'All'`
IsCategoryFilter(category) ==
    category # NoCategory /\ category # "" /\ category # All

\* matchingRegion.categories.find(cat => cat.name === category): its index, 0
\* when no category has the name
RECURSIVE FindCategoryFrom(_, _, _)
FindCategoryFrom(categories, category, k) ==
    IF k > Len(categories) THEN 0
    ELSE IF categories[k].name = category THEN k
    ELSE FindCategoryFrom(categories, category, k + 1)

\* A value of `companies`: an array, or a truthy value that is not one
AnArray(items) == [kind |-> "array", items |-> items]
NotAnArray == [kind |-> "object", items |-> <<>>]

\* The reduce over matchingRegion.categories
RECURSIVE AllCompanies(_)
AllCompanies(categories) ==
    IF categories = <<>> THEN <<>>
    ELSE LET init == AllCompanies(SubSeq(categories, 1, Len(categories) - 1))
             category == categories[Len(categories)]
         IN  IF category.companiesKind = "array"
             THEN init \o category.companies
             ELSE init

\* The reduce with the accumulator and the category's companies swapped
RECURSIVE AllCompaniesReversed(_)
AllCompaniesReversed(categories) ==
    IF categories = <<>> THEN <<>>
    ELSE LET init == AllCompaniesReversed(SubSeq(categories, 1,
                                                 Len(categories) - 1))
             category == categories[Len(categories)]
         IN  IF category.companiesKind = "array"
             THEN category.companies \o init
             ELSE init

CombineCategories(categories) == AllCompanies(categories)

\* The companies selected for the request; kind "throw" is the TypeError of
\* matchingRegion.categories.find / reduce on an absent categories field
SelectCompanies(matchingRegion, countryName, category) ==
    IF IsUnitedStates(countryName) /\ IsCategoryFilter(category)
    THEN IF ~matchingRegion.hasCategories
         THEN [kind |-> "throw", items |-> <<>>]
         ELSE LET k == FindCategoryFrom(matchingRegion.categories, category, 1)
              IN  IF k = 0 THEN AnArray(<<>>)
                  ELSE LET cat == matchingRegion.categories[k]
                       IN  IF cat.companiesKind = "missing" THEN AnArray(<<>>)
                           ELSE IF cat.companiesKind = "array"
                           THEN AnArray(cat.companies)
                           ELSE NotAnArray
    ELSE IF IsUnitedStates(countryName)
    THEN IF ~matchingRegion.hasCategories
         THEN [kind |-> "throw", items |-> <<>>]
         ELSE AnArray(CombineCategories(matchingRegion.categories))
    ELSE IF matchingRegion.hasCompanies
    THEN AnArray(matchingRegion.companies)
    ELSE AnArray(<<>>)

CompaniesResponse(matchingRegion, companies) ==
    [type |-> "companies",
     exchangeName |-> IF matchingRegion.exchangeName = NoExchange
                      THEN UnknownExchange
                      ELSE matchingRegion.exchangeName,
     companies |-> companies]

GetCompaniesBody(countryName, category, fail) ==
    LET conn == connectToDatabase(fail)
        ops1 == Attempt(conn.ops, "SaasCompany.findOne")
        ops2 == Attempt(ops1, "FinancialData.find")
        ops3 == Attempt(ops2, "ValuationMetrics.find")
    IN  IF ~conn.ok THEN Throw(conn, conn.ops)
        ELSE IF fail = "SaasCompany.findOne" THEN Throw(conn, ops1)
        ELSE IF ~saascompnies.exists \/ ~saascompnies.hasRegions
        THEN Return(404, Message("No data found"), conn, ops1)
        ELSE
        LET i == FindRegion(saascompnies.regions, countryName)
        IN  IF i = -1 THEN Throw(conn, ops1)
            ELSE IF i = 0
            THEN Return(404, Message("Country not found"), conn, ops1)
            ELSE
            LET matchingRegion == saascompnies.regions[i]
                selected == SelectCompanies(matchingRegion, countryName, category)
            IN  IF selected.kind = "throw" THEN Throw(conn, ops1)
                ELSE IF ~IsUnitedStates(countryName)
                THEN Return(200,
                            CompaniesResponse(matchingRegion, selected.items),
                            conn, ops1)
                \* companies.map on a value that is not an array
                ELSE IF selected.kind # "array" THEN Throw(conn, ops1)
                ELSE IF fail = "FinancialData.find" THEN Throw(conn, ops2)
                ELSE IF fail = "ValuationMetrics.find" THEN Throw(conn, ops3)
                ELSE
                LET companies == selected.items
                    tickers == {companies[k].ticker : k \in 1..Len(companies)}
                    financialDataArray == FindByTickers(incomeusa, tickers)
                    valuationMetricsArray ==
                        FindByTickers(valuation_metrics, tickers)
                IN  Return(200,
                           CompaniesResponse(matchingRegion,
                               [k \in 1..Len(companies) |->
                                   Enrich(companies[k], financialDataArray,
                                          valuationMetricsArray)]),
                           conn, ops3)

GetCompanies(countryNames, categories, fails) ==
    \E countryName \in countryNames, category \in categories, fail \in fails :
      \E r \in {GetCompaniesBody(countryName, category, fail)} :
        /\ Serve([route |-> "/api/companies/:countryName",
                  countryName |-> countryName, category |-> category,
                  fail |-> fail], r)
        /\ UNCHANGED <<data, subscriptions>>

\* ------------------------------------------------------------------------
\* GET /api/financials/:ticker

\* Model.findOne({}).lean(): the first document, whatever its ticker
FindOneOfAny(collection, ticker, empty) ==
    IF collection = <<>> THEN empty ELSE Head(collection)

\* Model.findOne({ ticker }).lean(): the first document of the ticker
RECURSIVE FindOneByTicker(_, _, _)
FindOneByTicker(collection, ticker, empty) ==
    IF collection = <<>> THEN empty
    ELSE IF Head(collection).ticker = ticker THEN Head(collection)
    ELSE FindOneByTicker(Tail(collection), ticker, empty)

GetFinancialsBody(ticker, fail) ==
    LET conn == connectToDatabase(fail)
        ops1 == Attempt(conn.ops, "ValuationMetrics.findOne")
        ops2 == Attempt(ops1, "FinancialData.findOne")
        valuationMetrics ==
            FindOneByTicker(valuation_metrics, ticker, EmptyValuationMetrics)
        financialData == FindOneByTicker(incomeusa, ticker, EmptyFinancialData)
    IN  IF ~conn.ok THEN Throw(conn, conn.ops)
        ELSE IF fail = "ValuationMetrics.findOne" THEN Throw(conn, ops1)
        ELSE IF fail = "FinancialData.findOne" THEN Throw(conn, ops2)
        ELSE IF financialData.ticker # ticker
        THEN Return(404, Message("Financial data not found"), conn, ops2)
        ELSE IF valuationMetrics.ticker = ticker
        THEN Return(200,
                    [type |-> "financials",
                     ticker |-> financialData.ticker,
                     hasIncome |-> financialData.hasIncome,
                     income_statement |-> financialData.income_statement,
                     growth_metrics |-> valuationMetrics.growth_metrics,
                     raw_values |-> valuationMetrics.raw_values,
                     market_cap |-> valuationMetrics.market_cap,
                     valuation_multiples_raw |->
                         valuationMetrics.valuation_multiples_raw,
                     latest_fiscal_year |-> valuationMetrics.latest_fiscal_year,
                     current_revenue |->
                         valuationMetrics.raw_values.current_revenue,
                     current_grossProfit |->
                         valuationMetrics.raw_values.current_grossProfit,
                     current_netIncome |->
                         valuationMetrics.raw_values.current_netIncome],
                    conn, ops2)
        ELSE Return(200, [type |-> "financials"] @@ financialData, conn, ops2)

GetFinancials(tickers, fails) ==
    \E ticker \in tickers, fail \in fails :
      \E r \in {GetFinancialsBody(ticker, fail)} :
        /\ Serve([route |-> "/api/financials/:ticker", ticker |-> ticker,
                  fail |-> fail], r)
        /\ UNCHANGED <<data, subscriptions>>

\* ------------------------------------------------------------------------
\* GET /api/health

GetHealth ==
    /\ request' = [route |-> "/api/health", fail |-> NoFail]
    /\ responses' = <<[status |-> 200, body |-> [type |-> "health"]]>>
    /\ uncaught' = FALSE
    /\ dbOps' = <<>>
    /\ before' = Snapshot
    /\ UNCHANGED <<cachedDb, readyState, data, subscriptions, inFlight>>

\* ------------------------------------------------------------------------
\* POST /api/notifications/subscribe

\* /^[^\s@]+@[^\s@]+\.[^\s@]+$/.test(email)
EmailRegexTest(email) ==
    /\ \A i \in 1..Len(email) : ~IsWhitespace(email[i])
    /\ \E i \in 1..Len(email) :
        /\ email[i] = "@"
        /\ \A j \in 1..Len(email) : email[j] = "@" => j = i
        /\ i > 1
        /\ \E j \in (i + 2)..(Len(email) - 1) : email[j] = "."

\* A test that only looks for the "@"
HasAt(email) == \E i \in 1..Len(email) : email[i] = "@"

ValidEmail(email) == EmailRegexTest(email)

\* The schema's setters on email (trim, lowercase), which mongoose applies to
\* a document's value and to a query filter's value alike
CastEmail(email) == ToLowerCase(Trim(email))

\* The schema's setter on phone (trim)
CastPhone(phone) == IF phone = Undefined THEN Undefined ELSE Trim(phone)

\* The index of the first document of the email in a collection, 0 if none
RECURSIVE FindOneByEmailFrom(_, _, _)
FindOneByEmailFrom(collection, email, i) ==
    IF i > Len(collection) THEN 0
    ELSE IF collection[i].email = CastEmail(email) THEN i
    ELSE FindOneByEmailFrom(collection, email, i + 1)

NeverFinds(collection, email) == 0

FindOneByEmail(collection, email) == FindOneByEmailFrom(collection, email, 1)

\* One `if (notify...) { try { ... } catch (error) { throw error } }` block
\* on the collection of `model`
SubscribeIn(model, collection, email, phone, fail, ops) ==
    LET opsFind == Attempt(ops, model \o ".findOne")
        opsUpdate == Attempt(opsFind, model \o ".updateOne")
        opsSave == Attempt(opsFind, model \o ".save")
        i == FindOneByEmail(collection, email)
    IN  IF fail = model \o ".findOne"
        THEN [ok |-> FALSE, collection |-> collection, ops |-> opsFind,
              result |-> "false"]
        ELSE IF i # 0
        THEN IF ~Falsy(phone) /\ collection[i].phone # phone
             THEN IF fail = model \o ".updateOne"
                  THEN [ok |-> FALSE, collection |-> collection,
                        ops |-> opsUpdate, result |-> "false"]
                  ELSE [ok |-> TRUE,
                        collection |->
                            [collection EXCEPT ![i].phone = CastPhone(phone)],
                        ops |-> opsUpdate, result |-> "updated"]
             ELSE [ok |-> TRUE, collection |-> collection, ops |-> opsFind,
                   result |-> "updated"]
        ELSE IF fail = model \o ".save"
        THEN [ok |-> FALSE, collection |-> collection, ops |-> opsSave,
              result |-> "false"]
        ELSE [ok |-> TRUE,
              collection |->
                  Append(collection,
                         [email |-> CastEmail(email),
                          phone |-> IF Falsy(phone) THEN Undefined
                                    ELSE CastPhone(phone)]),
              ops |-> opsSave, result |-> "created"]

\* A block that is skipped: its flag is not set
Skipped(collection, ops) ==
    [ok |-> TRUE, collection |-> collection, ops |-> ops, result |-> "false"]

\* The handler with both blocks in one transaction: a failure leaves both
\* collections as they were
SubscribeBodyAtomic(email, phone, notifyAllCountries, notifyMetricsUpdates, fail) ==
    LET stay == [cachedDb |-> cachedDb, readyState |-> readyState]
        conn == connectToDatabase(fail)
        all == IF notifyAllCountries
               THEN SubscribeIn("Notification", notification_subscriptions,
                                email, phone, fail, conn.ops)
               ELSE Skipped(notification_subscriptions, conn.ops)
        metrics == IF notifyMetricsUpdates
                   THEN SubscribeIn("MetricsNotification",
                                    metrics_update_subscriptions,
                                    email, phone, fail, all.ops)
                   ELSE Skipped(metrics_update_subscriptions, all.ops)
        kept == [notification_subscriptions |-> notification_subscriptions,
                 metrics_update_subscriptions |-> metrics_update_subscriptions]
    IN  IF Falsy(email)
        THEN Return(400, Message("Email is required"), stay, <<>>) @@ kept
        ELSE IF ~ValidEmail(email)
        THEN Return(400, Message("Invalid email format"), stay, <<>>) @@ kept
        ELSE IF ~conn.ok THEN Throw(conn, conn.ops) @@ kept
        ELSE IF ~all.ok THEN Throw(conn, all.ops) @@ kept
        ELSE IF ~metrics.ok
        THEN Throw(conn, metrics.ops) @@ kept
        ELSE Return(201,
                    [type |-> "subscribed",
                     message |-> "Successfully subscribed",
                     results |-> [allCountries |-> all.result,
                                  metricsUpdates |-> metrics.result]],
                    conn, metrics.ops)
             @@ [notification_subscriptions |-> all.collection,
                 metrics_update_subscriptions |-> metrics.collection]

SubscribeBody(email, phone, notifyAllCountries, notifyMetricsUpdates, fail) ==
    LET stay == [cachedDb |-> cachedDb, readyState |-> readyState]
        conn == connectToDatabase(fail)
        all == IF notifyAllCountries
               THEN SubscribeIn("Notification", notification_subscriptions,
                                email, phone, fail, conn.ops)
               ELSE Skipped(notification_subscriptions, conn.ops)
        metrics == IF notifyMetricsUpdates
                   THEN SubscribeIn("MetricsNotification",
                                    metrics_update_subscriptions,
                                    email, phone, fail, all.ops)
                   ELSE Skipped(metrics_update_subscriptions, all.ops)
        kept == [notification_subscriptions |-> notification_subscriptions,
                 metrics_update_subscriptions |-> metrics_update_subscriptions]
    IN  IF Falsy(email)
        THEN Return(400, Message("Email is required"), stay, <<>>) @@ kept
        ELSE IF ~ValidEmail(email)
        THEN Return(400, Message("Invalid email format"), stay, <<>>) @@ kept
        ELSE IF ~conn.ok THEN Throw(conn, conn.ops) @@ kept
        ELSE IF ~all.ok THEN Throw(conn, all.ops) @@ kept
        ELSE IF ~metrics.ok
        THEN Throw(conn, metrics.ops)
             @@ [notification_subscriptions |-> all.collection,
                 metrics_update_subscriptions |-> metrics_update_subscriptions]
        ELSE Return(201,
                    [type |-> "subscribed",
                     message |-> "Successfully subscribed",
                     results |-> [allCountries |-> all.result,
                                  metricsUpdates |-> metrics.result]],
                    conn, metrics.ops)
             @@ [notification_subscriptions |-> all.collection,
                 metrics_update_subscriptions |-> metrics.collection]

Subscribe(emails, phones, fails) ==
    \E email \in emails, phone \in phones,
       notifyAllCountries \in BOOLEAN, notifyMetricsUpdates \in BOOLEAN,
       fail \in fails :
      \E r \in {SubscribeBody(email, phone, notifyAllCountries,
                              notifyMetricsUpdates, fail)} :
            /\ Serve([route |-> "/api/notifications/subscribe",
                      email |-> email, phone |-> phone,
                      notifyAllCountries |-> notifyAllCountries,
                      notifyMetricsUpdates |-> notifyMetricsUpdates,
                      fail |-> fail], r)
            /\ notification_subscriptions' = r.notification_subscriptions
            /\ metrics_update_subscriptions' = r.metrics_update_subscriptions
            /\ UNCHANGED data

\* ------------------------------------------------------------------------
\* The connection to MongoDB is lost: readyState leaves 1, the cached handle
\* stays

Disconnect ==
    /\ readyState = 1
    /\ readyState' = 0
    /\ connects' = 0
    /\ UNCHANGED <<cachedDb, data, subscriptions, served, pending>>

\* ------------------------------------------------------------------------
\* The documents and requests the specifications draw from

NameUS == <<"U", "n", "i", "t", "e", "d", " ", "S", "t", "a", "t", "e", "s", " ", "(", "N", "Y", "S", "E", "/", "N", "A", "S", "D", "A", "Q", ")">>
NameIndiaNSE == <<"I", "n", "d", "i", "a", " ", "(", "N", "S", "E", ")">>
NameIndiaBSE == <<"I", "n", "d", "i", "a", "(", "B", "S", "E", ")">>
NameLowerUS == <<"u", "n", "i", "t", "e", "d", " ", "s", "t", "a", "t", "e", "s">>
NameTheUS == <<"T", "h", "e", " ", "U", "n", "i", "t", "e", "d", " ", "S", "t", "a", "t", "e", "s">>
NameParenOnly == <<"(", "O", "T", "C", ")">>
NameBlankParen == <<" ", " ", "(", "O", "T", "C", ")">>

ReqUnited == <<"U", "n", "i", "t", "e", "d">>
ReqIndia == <<"I", "n", "d", "i", "a">>
ReqStates == <<"S", "t", "a", "t", "e", "s">>
ReqJapan == <<"J", "a", "p", "a", "n">>

EmailLower == <<"a", "@", "b", ".", "c">>
EmailUpper == <<"A", "@", "b", ".", "c">>
EmailOther == <<"x", "@", "y", ".", "z">>
EmailNoDot == <<"a", "@", "b">>
EmailNotAnEmail == <<"n", "o", "t", "-", "a", "n", "-", "e", "m", "a", "i", "l">>
EmailSpace == <<"a", " ", "b", "@", "c", ".", "d">>
Phone1 == <<"1">>
Phone2 == <<" ", "2">>

Company(ticker) == [ticker |-> ticker, name |-> ticker \o " Inc"]

Category(name, kind, companies) ==
    [name |-> name, companiesKind |-> kind, companies |-> companies]

Region(name, exchangeName, hasCompanies, companies, hasCategories, categories) ==
    [name |-> name, exchangeName |-> exchangeName,
     hasCompanies |-> hasCompanies, companies |-> companies,
     hasCategories |-> hasCategories, categories |-> categories]

SaasDocument(regions) == [exists |-> TRUE, hasRegions |-> TRUE, regions |-> regions]
NoDocument == [exists |-> FALSE, hasRegions |-> FALSE, regions |-> <<>>]

Statement(date, netIncome, revenue, grossProfit) ==
    [date |-> date, revenue |-> revenue, grossProfit |-> grossProfit,
     netIncome |-> netIncome, calendarYear |-> JsNum(2020 + date)]

MarketCapEntry(date, marketCap) == [date |-> date, marketCap |-> marketCap]

FinancialDoc(ticker, hasIncome, income_statement, hasMarketCap, market_cap) ==
    [ticker |-> ticker, hasIncome |-> hasIncome,
     income_statement |-> income_statement,
     hasMarketCap |-> hasMarketCap, market_cap |-> market_cap]

ValuationDoc(ticker, market_cap, year, growth, raw, multiples) ==
    [ticker |-> ticker, market_cap |-> market_cap, latest_fiscal_year |-> year,
     growth_metrics |-> growth, raw_values |-> raw,
     valuation_multiples_raw |-> multiples]

Growth(revenue, grossProfit, netIncome) ==
    [has |-> TRUE, revenue_growth_pct |-> revenue,
     gross_profit_growth_pct |-> grossProfit, net_income_growth_pct |-> netIncome]

Raw(revenue, grossProfit, netIncome) ==
    [has |-> TRUE, current_revenue |-> revenue,
     current_grossProfit |-> grossProfit, current_netIncome |-> netIncome]

Multiples(toRevenue, toNetIncome, toGrossProfit) ==
    [has |-> TRUE, marketcap_to_revenue |-> toRevenue,
     marketcap_to_netincome |-> toNetIncome,
     marketcap_to_grossprofit |-> toGrossProfit]

\* The regions of a well-formed document: the United States with categories,
\* the other countries with a flat list
USRegion ==
    Region(NameUS, "NYSE/NASDAQ", FALSE, <<>>, TRUE,
           <<Category("CRM", "array", <<Company("T1"), Company("T3")>>),
             Category("ERP", "array", <<Company("T2")>>)>>)

IndiaRegion ==
    Region(NameIndiaNSE, NoExchange, TRUE, <<Company("I1")>>, FALSE, <<>>)

\* A United States region whose document has no categories field
USRegionFlat ==
    Region(NameUS, "NYSE/NASDAQ", TRUE, <<Company("T1")>>, FALSE, <<>>)

\* A region whose name is stored as a number
NumberRegion == Region(NotAString, NoExchange, TRUE, <<>>, FALSE, <<>>)

\* T2 has statements and market caps and no valuation metrics
FinancialDocT2 ==
    FinancialDoc("T2", TRUE,
                 <<Statement(1, JsNum(1), JsNum(4), JsNum(2)),
                   Statement(2, JsNum(3), JsNum(8), JsNum(0))>>,
                 TRUE, <<MarketCapEntry(2, JsNum(12)), MarketCapEntry(1, JsNum(7))>>)

\* T1 has both documents
FinancialDocT1 ==
    FinancialDoc("T1", TRUE, <<Statement(2, JsNum(0), JsNum(4), JsNum(2))>>,
                 TRUE, <<MarketCapEntry(1, JsNum(8))>>)

ValuationDocT1 ==
    ValuationDoc("T1", JsNum(9), JsNum(2024),
                 Growth(JsNum(5), JsUndefined, JsNum(0)),
                 Raw(JsNum(6), JsNum(0), JsUndefined),
                 Multiples(JsNum(3), JsUndefined, JsNum(0)))

InitialRequest == [route |-> "none", fail |-> NoFail]

\* The process has just started: nothing is cached, nothing was served
Started ==
    /\ cachedDb = FALSE
    /\ readyState = 0
    /\ request = InitialRequest
    /\ responses = <<>>
    /\ uncaught = FALSE
    /\ dbOps = <<>>
    /\ pending = [p \in Requests |-> "idle"]
    /\ connects = 0

EmptySubscriptions ==
    /\ notification_subscriptions = <<>>
    /\ metrics_update_subscriptions = <<>>

\* ------------------------------------------------------------------------
\* Spec: the whole server, every route and every failure point

Init ==
    /\ Started
    /\ EmptySubscriptions
    /\ before = [notification_subscriptions |-> <<>>,
                 metrics_update_subscriptions |-> <<>>,
                 cachedDb |-> FALSE, readyState |-> 0]
    /\ saascompnies \in {SaasDocument(<<IndiaRegion, USRegion>>),
                         SaasDocument(<<USRegionFlat, NumberRegion>>),
                         NoDocument}
    /\ incomeusa = <<FinancialDocT1, FinancialDocT2>>
    /\ valuation_metrics = <<ValuationDocT1>>

\* The failure points of a handler that reads the regions document
ReadFails == {NoFail, "connect", "SaasCompany.findOne"}

Next ==
    \/ GetCountries(ReadFails)
    \/ GetCountry({UnitedStates, ReqJapan}, ReadFails)
    \/ GetCategoriesUsa(ReadFails)
    \/ GetCompanies({UnitedStates, ReqIndia}, {NoCategory, "CRM"},
                    {NoFail, "connect", "SaasCompany.findOne",
                     "FinancialData.find", "ValuationMetrics.find"})
    \/ GetFinancials({"T1", "T3"},
                     {NoFail, "connect", "ValuationMetrics.findOne",
                      "FinancialData.findOne"})
    \/ GetHealth
    \/ Subscribe({EmailLower}, {Undefined, Phone1},
                 {NoFail, "connect", "Notification.findOne",
                  "Notification.save", "Notification.updateOne",
                  "MetricsNotification.findOne", "MetricsNotification.save",
                  "MetricsNotification.updateOne"})
    \/ Disconnect

Spec == Init /\ [][Next]_vars

\* ------------------------------------------------------------------------
\* SpecEnrich: GET /api/companies/United States over the financial and
\* valuation documents of ticker T1

Dates == 1..MaxDate

Vals == {JsUndefined, JsNum(0), JsNum(2)}

StatementPool ==
    {Statement(d, netIncome, p[1], p[2]) :
        d \in Dates, netIncome \in Vals,
        p \in {<<JsNum(4), JsNum(3)>>, <<JsNum(0), JsUndefined>>}}

OtherStatement(d) == Statement(d, JsNum(1), JsNum(1), JsNum(1))

\* [has, entries] of income_statement: absent, empty, one entry, or an entry
\* and another one in both orders
IncomeChoices ==
    {<<FALSE, <<>>>>, <<TRUE, <<>>>>}
    \cup {<<TRUE, <<e>>>> : e \in StatementPool}
    \cup {<<TRUE, <<e, OtherStatement(d)>>>> : e \in StatementPool, d \in Dates}
    \cup {<<TRUE, <<OtherStatement(d), e>>>> : e \in StatementPool, d \in Dates}

CapPool == {MarketCapEntry(d, m) : d \in Dates, m \in {JsUndefined, JsNum(0), JsNum(8)}}

CapChoices ==
    {<<FALSE, <<>>>>, <<TRUE, <<>>>>}
    \cup {<<TRUE, <<e>>>> : e \in CapPool}
    \cup {<<TRUE, <<MarketCapEntry(d1, JsNum(8)), MarketCapEntry(d2, JsNum(5))>>>> :
            d1 \in Dates, d2 \in Dates}
    \cup {<<TRUE, <<MarketCapEntry(d2, JsNum(5)), MarketCapEntry(d1, JsNum(8))>>>> :
            d1 \in Dates, d2 \in Dates}

\* The FinancialData collection: T2's document and at most one of T1
FinancialAll ==
    {<<FinancialDocT2>>}
    \cup {<<FinancialDoc("T1", i[1], i[2], c[1], c[2]), FinancialDocT2>> :
            i \in IncomeChoices, c \in CapChoices}

FinancialFew ==
    {<<FinancialDocT2>>}
    \cup {<<FinancialDoc("T1", TRUE, <<e>>, c[1], c[2]), FinancialDocT2>> :
            e \in StatementPool,
            c \in {<<FALSE, <<>>>>, <<TRUE, <<MarketCapEntry(1, JsNum(8))>>>>}}

GrowthChoices == {NoGrowth, Growth(JsNum(5), JsUndefined, JsNum(0))}

RawChoices ==
    {NoRaw}
    \cup {Raw(p[1], p[2], netIncome) :
            netIncome \in Vals,
            p \in {<<JsNum(6), JsNum(5)>>, <<JsNum(0), JsUndefined>>,
                   <<JsUndefined, JsNum(0)>>}}

MultiplesChoices ==
    {NoMultiples}
    \cup {Multiples(p[1], toNetIncome, p[2]) :
            toNetIncome \in {JsUndefined, JsNum(0), JsNum(4)},
            p \in {<<JsNum(3), JsUndefined>>, <<JsNum(0), JsNum(7)>>}}

\* The ValuationMetrics collection: at most one document, of T1
ValuationAll ==
    {<<>>}
    \cup {<<ValuationDoc("T1", p[1], p[2], g, r, m)>> :
            p \in {<<JsNum(9), JsNum(2024)>>, <<JsUndefined, JsUndefined>>},
            g \in GrowthChoices, r \in RawChoices, m \in MultiplesChoices}

ValuationFew ==
    {<<>>,
     <<ValuationDoc("T1", JsNum(9), JsNum(2024), NoGrowth, NoRaw,
                    Multiples(JsNum(3), JsNum(4), JsNum(7)))>>,
     <<ValuationDocT1>>}

NothingBefore ==
    before = [notification_subscriptions |-> <<>>,
              metrics_update_subscriptions |-> <<>>,
              cachedDb |-> FALSE, readyState |-> 0]

InitEnrich ==
    /\ Started
    /\ EmptySubscriptions
    /\ NothingBefore
    /\ saascompnies = SaasDocument(<<IndiaRegion, USRegion>>)
    /\ \/ incomeusa \in FinancialAll /\ valuation_metrics \in ValuationFew
       \/ incomeusa \in FinancialFew /\ valuation_metrics \in ValuationAll

NextEnrich ==
    GetCompanies({UnitedStates}, {NoCategory, "CRM"}, {NoFail})

SpecEnrich == InitEnrich /\ [][NextEnrich]_vars

\* ------------------------------------------------------------------------
\* SpecCategories: GET /api/companies/:countryName over the categories of the
\* United States region

CompanyLists ==
    {<<>>, <<Company("T1")>>, <<Company("T2"), Company("T1")>>,
     <<Company("T3"), Company("T2")>>}

CategoryPool ==
    {Category(name, "array", companies) :
        name \in {"CRM", "ERP"}, companies \in CompanyLists}
    \cup {Category(name, kind, <<>>) :
            name \in {"CRM", "ERP"}, kind \in {"missing", "object"}}

RECURSIVE SeqsUpTo(_, _)
SeqsUpTo(S, n) ==
    IF n = 0 THEN {<<>>}
    ELSE LET shorter == SeqsUpTo(S, n - 1)
         IN  shorter \cup {Append(s, x) : s \in shorter, x \in S}

InitCategories ==
    /\ Started
    /\ EmptySubscriptions
    /\ NothingBefore
    /\ \E hasCategories \in BOOLEAN :
       \E categories \in (IF hasCategories THEN SeqsUpTo(CategoryPool, MaxCategories)
                          ELSE {<<>>}) :
            saascompnies =
                SaasDocument(<<IndiaRegion,
                               Region(NameUS, "NYSE/NASDAQ", TRUE,
                                      <<Company("T3")>>, hasCategories,
                                      categories)>>)
    /\ incomeusa = <<FinancialDocT1, FinancialDocT2>>
    /\ valuation_metrics = <<ValuationDocT1>>

NextCategories ==
    \/ GetCompanies({UnitedStates, ReqUnited, NameUS},
                    {NoCategory, "", All, "CRM", "ERP", "HR"}, {NoFail})
    \/ GetCategoriesUsa({NoFail})

SpecCategories == InitCategories /\ [][NextCategories]_vars

\* ------------------------------------------------------------------------
\* SpecRegions: the routes that read region names, over regions arrays

NamePool ==
    {NameUS, NameIndiaNSE, NameIndiaBSE, NameLowerUS, NameTheUS,
     NameParenOnly, NameBlankParen, Undefined}

\* A region of the name: the United States regions hold categories, the
\* others a flat list; the exchange tells the regions apart
RegionNamed(name) ==
    IF name # Undefined /\ StartsWith(name, UnitedStates)
    THEN Region(name, "NYSE/NASDAQ", FALSE, <<>>, TRUE,
                <<Category("CRM", "array", <<Company("T1")>>)>>)
    ELSE IF name = NameIndiaNSE
    THEN Region(name, "NSE", TRUE, <<Company("I1")>>, FALSE, <<>>)
    ELSE IF name = NameIndiaBSE
    THEN Region(name, "BSE", TRUE, <<Company("I2")>>, FALSE, <<>>)
    ELSE IF name = NameTheUS
    THEN Region(name, "OTHER", FALSE, <<>>, FALSE, <<>>)
    ELSE Region(name, NoExchange, TRUE, <<>>, FALSE, <<>>)

RegionPool == {RegionNamed(name) : name \in NamePool}

CountryNamePool == {UnitedStates, ReqUnited, ReqIndia, ReqStates, NameLowerUS}

InitRegions ==
    /\ Started
    /\ EmptySubscriptions
    /\ NothingBefore
    /\ saascompnies \in {SaasDocument(regions) :
                            regions \in SeqsUpTo(RegionPool, MaxRegions)}
    /\ incomeusa = <<FinancialDocT1, FinancialDocT2>>
    /\ valuation_metrics = <<ValuationDocT1>>

NextRegions ==
    \/ GetCountries({NoFail})
    \/ GetCountry(CountryNamePool, {NoFail})
    \/ GetCompanies(CountryNamePool, {NoCategory}, {NoFail})

SpecRegions == InitRegions /\ [][NextRegions]_vars

\* ------------------------------------------------------------------------
\* SpecSubscribe: POST /api/notifications/subscribe, request after request

\* Someone else may have subscribed before
EarlierSubscriptions == {<<>>, <<[email |-> EmailOther, phone |-> Undefined]>>}

InvalidEmails == {Undefined, <<>>, EmailNoDot, EmailNotAnEmail, EmailSpace}

InitSubscribe ==
    /\ Started
    /\ notification_subscriptions \in EarlierSubscriptions
    /\ metrics_update_subscriptions = notification_subscriptions
    /\ before = Snapshot
    /\ saascompnies = NoDocument
    /\ incomeusa = <<>>
    /\ valuation_metrics = <<>>

NextSubscribe ==
    \/ Subscribe({EmailLower, EmailUpper} \cup InvalidEmails,
                 {Undefined, Phone1, Phone2}, {NoFail})
    \/ Disconnect

SpecSubscribe == InitSubscribe /\ [][NextSubscribe]_vars

\* ------------------------------------------------------------------------
\* What the claims speak of

CompaniesRoute == "/api/companies/:countryName"

\* The last request was GET /api/companies/:countryName for the United States
\* and was answered 200
UnitedStatesAnswer ==
    /\ request.route = CompaniesRoute
    /\ Len(request.countryName) >= Len(UnitedStates)
    /\ SubSeq(request.countryName, 1, Len(UnitedStates)) = UnitedStates
    /\ Len(responses) = 1
    /\ responses[1].status = 200

Answered == responses[1].body.companies

DocsOf(collection, ticker) ==
    {i \in 1..Len(collection) : collection[i].ticker = ticker}

TheDoc(collection, ticker) ==
    collection[CHOOSE i \in DocsOf(collection, ticker) : TRUE]

HasFinancials(e) == "financials" \in DOMAIN e

\* The financials of the precomputed tier echo raw_values, those of the
\* derived tier do not
InPrecomputedTier(e) ==
    HasFinancials(e) /\ "raw_values" \in DOMAIN e.financials

InDerivedTier(e) ==
    HasFinancials(e) /\ "raw_values" \notin DOMAIN e.financials

\* ------------------------------------------------------------------------
\* C1

\* C1 as stated: every company whose ticker has a FinancialData and a
\* ValuationMetrics document is enriched by the precomputed tier, with the
\* ValuationMetrics document's market_cap as financials.marketCap
C1_EveryValuationDocumentWins ==
    UnitedStatesAnswer =>
        \A k \in 1..Len(Answered) :
            LET e == Answered[k]
            IN  (/\ DocsOf(incomeusa, e.ticker) # {}
                 /\ DocsOf(valuation_metrics, e.ticker) # {})
                => /\ InPrecomputedTier(e)
                   /\ e.financials.marketCap
                        = TheDoc(valuation_metrics, e.ticker).market_cap

\* C1, amended: every company whose ticker has a FinancialData document and a
\* ValuationMetrics document holding growth_metrics or raw_values is enriched
\* by the precomputed tier, and financials.marketCap is the ValuationMetrics
\* document's market_cap
C1_PrecomputedWins ==
    UnitedStatesAnswer =>
        \A k \in 1..Len(Answered) :
            LET e == Answered[k]
            IN  (/\ DocsOf(incomeusa, e.ticker) # {}
                 /\ DocsOf(valuation_metrics, e.ticker) # {}
                 /\ \/ TheDoc(valuation_metrics, e.ticker).growth_metrics.has
                    \/ TheDoc(valuation_metrics, e.ticker).raw_values.has)
                => /\ InPrecomputedTier(e)
                   /\ e.financials.marketCap
                        = TheDoc(valuation_metrics, e.ticker).market_cap

\* A company of both documents is enriched by the precomputed tier although
\* its FinancialData holds statements and a market cap other than the
\* ValuationMetrics document's
C1_Witness ==
    /\ UnitedStatesAnswer
    /\ \E k \in 1..Len(Answered) :
        LET e == Answered[k]
        IN  /\ DocsOf(incomeusa, e.ticker) # {}
            /\ DocsOf(valuation_metrics, e.ticker) # {}
            /\ LET fd == TheDoc(incomeusa, e.ticker)
                   vm == TheDoc(valuation_metrics, e.ticker)
               IN  /\ vm.raw_values.has
                   /\ ~vm.growth_metrics.has
                   /\ fd.hasIncome /\ Len(fd.income_statement) = 1
                   /\ fd.hasMarketCap /\ Len(fd.market_cap) = 1
                   /\ fd.market_cap[1].marketCap = JsNum(8)
                   /\ vm.market_cap = JsNum(9)
                   /\ InPrecomputedTier(e)
                   /\ e.financials.marketCap = JsNum(9)

\* ------------------------------------------------------------------------
\* C2

\* C2 as stated: whichever tier produced the financials, a netIncome of 0
\* gives a marketCapToNetIncomeMultiple of null
C2_NullInEveryTier ==
    UnitedStatesAnswer =>
        \A k \in 1..Len(Answered) :
            LET e == Answered[k]
            IN  (HasFinancials(e) /\ e.financials.netIncome = JsNum(0))
                => e.financials.marketCapToNetIncomeMultiple = JsNull

\* C2, amended: a United States request is answered 200 without an exception,
\* and every company enriched by the derived tier whose financials.netIncome
\* is 0 has a marketCapToNetIncomeMultiple of null
C2_NullInDerivedTier ==
    request.route = CompaniesRoute =>
        /\ ~uncaught
        /\ UnitedStatesAnswer
        /\ \A k \in 1..Len(Answered) :
            LET e == Answered[k]
            IN  (InDerivedTier(e) /\ e.financials.netIncome = JsNum(0))
                => e.financials.marketCapToNetIncomeMultiple = JsNull

\* A company of the derived tier with a netIncome of 0, whose other multiples
\* were divided
C2_Witness ==
    /\ UnitedStatesAnswer
    /\ \E k \in 1..Len(Answered) :
        LET e == Answered[k]
        IN  /\ InDerivedTier(e)
            /\ e.ticker = "T1"
            /\ e.financials.netIncome = JsNum(0)
            /\ e.financials.marketCap = JsNum(8)
            /\ e.financials.marketCapToNetIncomeMultiple = JsNull
            /\ e.financials.marketCapToRevenueMultiple = JsFixed2(200)

\* ------------------------------------------------------------------------
\* C3

StoredCompanies ==
    UNION {UNION {Range(r.categories[c].companies) :
                    c \in 1..Len(r.categories)} :
           r \in Range(saascompnies.regions)}

\* C3: a United States company whose ticker has neither a FinancialData nor a
\* ValuationMetrics document is returned as it is stored, without a
\* financials key
C3_NoDataNoFinancials ==
    UnitedStatesAnswer =>
        \A k \in 1..Len(Answered) :
            LET e == Answered[k]
            IN  (/\ DocsOf(incomeusa, e.ticker) = {}
                 /\ DocsOf(valuation_metrics, e.ticker) = {})
                => /\ ~HasFinancials(e)
                   /\ DOMAIN e = {"ticker", "name"}
                   /\ \E c \in StoredCompanies : c = e

\* T1 has no document in either collection and is returned without
\* financials, next to T2, which has them
C3_Witness ==
    /\ UnitedStatesAnswer
    /\ DocsOf(incomeusa, "T1") = {}
    /\ DocsOf(valuation_metrics, "T1") = {}
    /\ \E k \in 1..Len(Answered) :
        Answered[k].ticker = "T1" /\ ~HasFinancials(Answered[k])
    /\ \E k \in 1..Len(Answered) :
        Answered[k].ticker = "T2" /\ HasFinancials(Answered[k])

\* ------------------------------------------------------------------------
\* C4

IsPrefix(p, s) == Len(p) <= Len(s) /\ SubSeq(s, 1, Len(p)) = p

\* The regions whose name starts with the requested countryName
Matching ==
    {i \in 1..Len(saascompnies.regions) :
        /\ saascompnies.regions[i].name # Undefined
        /\ IsPrefix(request.countryName, saascompnies.regions[i].name)}

FirstMatching ==
    saascompnies.regions[CHOOSE i \in Matching : \A j \in Matching : i <= j]

UnitedStatesRequest ==
    /\ request.route = CompaniesRoute
    /\ IsPrefix(UnitedStates, request.countryName)

\* The companies of the categories that hold an array, front to back
RECURSIVE Concatenated(_)
Concatenated(categories) ==
    IF categories = <<>> THEN <<>>
    ELSE (IF Head(categories).companiesKind = "array"
          THEN Head(categories).companies ELSE <<>>)
         \o Concatenated(Tail(categories))

\* C4: a United States request without a category, or with category "All",
\* returns the companies of all categories, categories and companies in
\* stored order; a category whose companies field is missing or not an array
\* contributes nothing.  A region with categories is answered 200
C4_AllIsConcatenation ==
    (/\ UnitedStatesRequest
     /\ request.category \in {NoCategory, All}
     /\ Matching # {})
    => /\ FirstMatching.hasCategories => UnitedStatesAnswer
       /\ UnitedStatesAnswer =>
            LET expected == Concatenated(FirstMatching.categories)
            IN  /\ Len(Answered) = Len(expected)
                /\ \A k \in 1..Len(expected) :
                      /\ Answered[k].ticker = expected[k].ticker
                      /\ Answered[k].name = expected[k].name

\* Two categories of two companies each, answered in category-then-company
\* order
C4_Witness ==
    /\ UnitedStatesRequest
    /\ request.category = All
    /\ UnitedStatesAnswer
    /\ Len(FirstMatching.categories) = 2
    /\ FirstMatching.categories[1].companies = <<Company("T2"), Company("T1")>>
    /\ FirstMatching.categories[2].companies = <<Company("T3"), Company("T2")>>
    /\ [k \in 1..Len(Answered) |-> Answered[k].ticker] = <<"T2", "T1", "T3", "T2">>

\* ------------------------------------------------------------------------
\* C5

CountryRoute == "/api/country/:countryName"

ExchangeOf(region) ==
    IF region.exchangeName = "" THEN "Unknown Exchange" ELSE region.exchangeName

\* C5: both routes use the first region, in stored order, whose name starts
\* with countryName, and answer 404 when no region's name does
C5_FirstPrefixRegion ==
    (request.route \in {CountryRoute, CompaniesRoute} /\ request.fail = NoFail)
    => /\ Len(responses) = 1
       /\ IF Matching = {}
          THEN responses[1].status = 404
          ELSE /\ responses[1].status = 200
               /\ request.route = CountryRoute
                    => responses[1].body.region = FirstMatching
               /\ request.route = CompaniesRoute
                    => responses[1].body.exchangeName = ExchangeOf(FirstMatching)

\* "United States" finds the third region, after one that holds it as a
\* substring and one that differs by case
C5_Witness ==
    /\ request.route = CountryRoute
    /\ request.countryName = UnitedStates
    /\ Len(saascompnies.regions) = 3
    /\ saascompnies.regions[1].name = NameTheUS
    /\ saascompnies.regions[2].name = NameLowerUS
    /\ saascompnies.regions[3].name = NameUS
    /\ Len(responses) = 1
    /\ responses[1].status = 200
    /\ responses[1].body.region.name = NameUS

\* ------------------------------------------------------------------------
\* C6

\* C6: a United States request whose category names no category of the
\* matched region is answered 200 with no companies, also when the region
\* has no categories field
C6_UnknownCategoryIsEmpty ==
    (/\ UnitedStatesRequest
     /\ request.category \notin {NoCategory, "", All}
     /\ Matching # {}
     /\ \A c \in 1..Len(FirstMatching.categories) :
            FirstMatching.categories[c].name # request.category)
    => /\ Len(responses) = 1
       /\ responses[1].status = 200
       /\ responses[1].body.companies = <<>>

\* ------------------------------------------------------------------------
\* C7

CountriesRoute == "/api/countries"

\* s before t in code unit order
Before(s, t) ==
    \E k \in 1..(Len(t)) :
        /\ k <= Len(s) + 1
        /\ \A i \in 1..(k - 1) : s[i] = t[i]
        /\ k = Len(s) + 1 \/ CodeUnit(s[k]) < CodeUnit(t[k])

\* C7: the 200 response of GET /api/countries is sorted ascending, holds no
\* string twice and is no longer than the regions array
C7_SortedUnique ==
    (/\ request.route = CountriesRoute
     /\ Len(responses) = 1
     /\ responses[1].status = 200)
    => LET countries == responses[1].body.countries
       IN  /\ \A i \in 1..(Len(countries) - 1) :
                Before(countries[i], countries[i + 1])
           /\ \A i, j \in 1..Len(countries) :
                countries[i] = countries[j] => i = j
           /\ Len(countries) <= Len(saascompnies.regions)

\* Three regions of two countries, stored in descending order
C7_Witness ==
    /\ request.route = CountriesRoute
    /\ Len(responses) = 1
    /\ responses[1].status = 200
    /\ [i \in 1..Len(saascompnies.regions) |-> saascompnies.regions[i].name]
        = <<NameUS, NameIndiaNSE, NameIndiaBSE>>
    /\ Len(responses[1].body.countries) = 2
    /\ responses[1].body.countries[1] = ReqIndia
    /\ responses[1].body.countries[2] = UnitedStates

\* ------------------------------------------------------------------------
\* C8

SubscribeRoute == "/api/notifications/subscribe"

\* The documents of a collection whose email is the request's, in the lower
\* case the schema stores
DocsOfEmail(collection, email) ==
    {i \in 1..Len(collection) :
        collection[i].email = [k \in 1..Len(email) |-> LowerChar(email[k])]}

\* The last request subscribed to all countries and was answered 201
SubscribedToAll ==
    /\ request.route = SubscribeRoute
    /\ request.notifyAllCountries
    /\ Len(responses) = 1
    /\ responses[1].status = 201

\* C8: a subscription to all countries answers 'created' when the collection
\* held no document of the email before the request (the first request from
\* an empty collection) and 'updated' when it held one (the second request);
\* after it the collection holds exactly one document of the email
C8_CreatedThenUpdated ==
    SubscribedToAll =>
        LET held == DocsOfEmail(before.notification_subscriptions, request.email)
            holds == DocsOfEmail(notification_subscriptions, request.email)
        IN  /\ held = {} => responses[1].body.results.allCountries = "created"
            /\ held # {} => responses[1].body.results.allCountries = "updated"
            /\ Cardinality(holds) = 1

\* The second request of an email: the collection held its document, the
\* answer is 'updated', the collection still holds one document of it
C8_Witness ==
    /\ SubscribedToAll
    /\ request.email = EmailUpper
    /\ before.notification_subscriptions
        = <<[email |-> EmailLower, phone |-> Undefined]>>
    /\ responses[1].body.results.allCountries = "updated"
    /\ Cardinality(DocsOfEmail(notification_subscriptions, request.email)) = 1
    /\ Len(notification_subscriptions) = 1

\* ------------------------------------------------------------------------
\* C9

\* C9: a subscription whose email is missing or does not match the pattern
\* is answered 400 whatever its flags; the collections are as before, and
\* no connection and no database operation was attempted (the cached
\* handle is as before; readyState may have changed since, by Disconnect)
C9_InvalidEmailChangesNothing ==
    (request.route = SubscribeRoute /\ request.email \in InvalidEmails)
    => /\ Len(responses) = 1
       /\ responses[1].status = 400
       /\ notification_subscriptions = before.notification_subscriptions
       /\ metrics_update_subscriptions = before.metrics_update_subscriptions
       /\ dbOps = <<>>
       /\ cachedDb = before.cachedDb

\* "not-an-email" with both flags set, sent to a process that had lost its
\* connection and holds subscriptions
C9_Witness ==
    /\ request.route = SubscribeRoute
    /\ request.email = EmailNotAnEmail
    /\ request.notifyAllCountries
    /\ request.notifyMetricsUpdates
    /\ Len(responses) = 1
    /\ responses[1].status = 400
    /\ before.cachedDb
    /\ before.readyState = 0
    /\ Len(notification_subscriptions) = 2

\* ------------------------------------------------------------------------
\* C10

\* The failure point of the request was reached
InjectedFailure ==
    request.fail # NoFail /\ request.fail \in Range(dbOps)

\* The regions document makes a field access throw: the region without
\* categories for a United States request, the name that is not a string
\* for a lookup that reaches it
ShapeFailure ==
    /\ request.fail = NoFail
    /\ saascompnies = SaasDocument(<<USRegionFlat, NumberRegion>>)
    /\ \/ request.route = CountriesRoute
       \/ request.route = CompaniesRoute
       \/ request.route = CountryRoute /\ request.countryName = ReqJapan

\* C10: every request is answered exactly once and no exception leaves its
\* handler; the answer is 500 when a failure point was reached or the
\* document's shape made a field access throw
C10_FailureIs500 ==
    request.route # "none"
    => /\ Len(responses) = 1
       /\ ~uncaught
       /\ (InjectedFailure \/ ShapeFailure) => responses[1].status = 500

\* A failed ValuationMetrics.find after two queries that succeeded
C10_Witness ==
    /\ request.route = CompaniesRoute
    /\ request.fail = "ValuationMetrics.find"
    /\ dbOps = <<"connect", "SaasCompany.findOne", "FinancialData.find",
                 "ValuationMetrics.find">>
    /\ Len(responses) = 1
    /\ responses[1].status = 500
    /\ ~uncaught

\* ------------------------------------------------------------------------
\* SpecFinancials: GET /api/financials/:ticker over the two collections

\* A ValuationMetrics document of a ticker without FinancialData
ValuationDocT3 ==
    ValuationDoc("T3", JsNum(5), JsNum(2023), NoGrowth,
                 Raw(JsNum(1), JsNum(0), JsUndefined), NoMultiples)

InitFinancials ==
    /\ Started
    /\ EmptySubscriptions
    /\ NothingBefore
    /\ saascompnies = NoDocument
    /\ incomeusa \in FinancialFew
    /\ valuation_metrics \in
         ValuationFew \cup {<<ValuationDocT3>>, <<ValuationDocT3, ValuationDocT1>>}

NextFinancials ==
    GetFinancials({"T1", "T2", "T3"}, {NoFail, "FinancialData.findOne"})

SpecFinancials == InitFinancials /\ [][NextFinancials]_vars

\* ------------------------------------------------------------------------
\* C11

FinancialsRoute == "/api/financials/:ticker"

\* The first document of the ticker, as findOne returns it
FirstOf(collection, ticker) ==
    collection[CHOOSE i \in DocsOf(collection, ticker) :
                   \A j \in DocsOf(collection, ticker) : i <= j]

ValuationFields ==
    {"growth_metrics", "raw_values", "valuation_multiples_raw",
     "latest_fiscal_year", "current_revenue", "current_grossProfit",
     "current_netIncome"}

\* C11: when its queries succeed, GET /api/financials/:ticker answers 404
\* exactly when the ticker has no FinancialData document, whether or not it
\* has a ValuationMetrics document; otherwise it answers 200 with the
\* FinancialData document's fields, to which the valuation fields of the
\* ticker's ValuationMetrics document are copied when there is one, and
\* with the FinancialData document alone when there is none
C11_FinancialsCombined ==
    (request.route = FinancialsRoute /\ request.fail = NoFail)
    => LET ticker == request.ticker
           body == responses[1].body
       IN  /\ Len(responses) = 1
           /\ responses[1].status \in {200, 404}
           /\ responses[1].status = 404 <=> DocsOf(incomeusa, ticker) = {}
           /\ responses[1].status = 200 =>
                LET fd == FirstOf(incomeusa, ticker)
                IN  /\ body.ticker = fd.ticker
                    /\ body.hasIncome = fd.hasIncome
                    /\ body.income_statement = fd.income_statement
                    /\ IF DocsOf(valuation_metrics, ticker) = {}
                       THEN /\ body = [type |-> "financials"] @@ fd
                            /\ DOMAIN body \cap ValuationFields = {}
                       ELSE LET vm == FirstOf(valuation_metrics, ticker)
                            IN  /\ body.growth_metrics = vm.growth_metrics
                                /\ body.raw_values = vm.raw_values
                                /\ body.market_cap = vm.market_cap
                                /\ body.valuation_multiples_raw
                                     = vm.valuation_multiples_raw
                                /\ body.latest_fiscal_year
                                     = vm.latest_fiscal_year
                                /\ body.current_revenue
                                     = vm.raw_values.current_revenue
                                /\ body.current_grossProfit
                                     = vm.raw_values.current_grossProfit
                                /\ body.current_netIncome
                                     = vm.raw_values.current_netIncome

\* T1 has both documents, the ValuationMetrics one after another ticker's:
\* the answer carries the valuation market_cap in place of the entries
C11_Witness ==
    /\ request.route = FinancialsRoute
    /\ request.ticker = "T1"
    /\ request.fail = NoFail
    /\ valuation_metrics = <<ValuationDocT3, ValuationDocT1>>
    /\ DocsOf(incomeusa, "T1") # {}
    /\ FirstOf(incomeusa, "T1").hasMarketCap
    /\ Len(responses) = 1
    /\ responses[1].status = 200
    /\ responses[1].body.market_cap = JsNum(9)
    /\ responses[1].body.current_revenue = JsNum(6)

\* ------------------------------------------------------------------------
\* C12

\* The entries of the latest date
LatestEntries(entries) ==
    {i \in 1..Len(entries) :
        \A j \in 1..Len(entries) : entries[j].date <= entries[i].date}

NonEmpty(has, entries) == has /\ Len(entries) > 0

\* C12: a company enriched by the derived tier takes revenue, grossProfit,
\* netIncome and year from one income_statement entry of the latest date and
\* marketCap from a market_cap entry of the latest date, in whatever order
\* the entries are stored; a company whose ticker has no precomputed data and
\* whose income_statement or market_cap is empty or absent has no latest
\* entry and gets no financials
C12_LatestByDate ==
    UnitedStatesAnswer =>
        \A k \in 1..Len(Answered) :
            LET e == Answered[k]
                fd == IF DocsOf(incomeusa, e.ticker) = {} THEN EmptyFinancialData
                      ELSE TheDoc(incomeusa, e.ticker)
            IN  /\ InDerivedTier(e) =>
                    /\ NonEmpty(fd.hasIncome, fd.income_statement)
                    /\ NonEmpty(fd.hasMarketCap, fd.market_cap)
                    /\ \E i \in LatestEntries(fd.income_statement) :
                         LET s == fd.income_statement[i]
                         IN  /\ e.financials.revenue = s.revenue
                             /\ e.financials.grossProfit = s.grossProfit
                             /\ e.financials.netIncome = s.netIncome
                             /\ e.financials.year = s.calendarYear
                    /\ \E i \in LatestEntries(fd.market_cap) :
                         e.financials.marketCap = fd.market_cap[i].marketCap
                /\ (/\ ~InPrecomputedTier(e)
                    /\ \/ ~NonEmpty(fd.hasIncome, fd.income_statement)
                       \/ ~NonEmpty(fd.hasMarketCap, fd.market_cap))
                   => ~HasFinancials(e)

\* The latest statement is stored second and the latest market cap first
C12_Witness ==
    /\ UnitedStatesAnswer
    /\ \E k \in 1..Len(Answered) :
        LET e == Answered[k]
        IN  /\ e.ticker = "T1"
            /\ InDerivedTier(e)
            /\ LET fd == TheDoc(incomeusa, "T1")
               IN  /\ Len(fd.income_statement) = 2
                   /\ fd.income_statement[1].date < fd.income_statement[2].date
                   /\ fd.income_statement[1].revenue
                        # fd.income_statement[2].revenue
                   /\ e.financials.revenue = fd.income_statement[2].revenue
                   /\ Len(fd.market_cap) = 2
                   /\ fd.market_cap[1].date > fd.market_cap[2].date
                   /\ e.financials.marketCap = fd.market_cap[1].marketCap

\* ------------------------------------------------------------------------
\* C13

FinancialDataOf(ticker) ==
    IF DocsOf(incomeusa, ticker) = {} THEN EmptyFinancialData
    ELSE TheDoc(incomeusa, ticker)

\* The first stored income_statement entry of the latest date, NoStatement
\* when there is none
LatestStatementOf(ticker) ==
    LET fd == FinancialDataOf(ticker)
    IN  IF NonEmpty(fd.hasIncome, fd.income_statement)
        THEN fd.income_statement[
                 CHOOSE i \in LatestEntries(fd.income_statement) :
                     \A j \in LatestEntries(fd.income_statement) : i <= j]
        ELSE NoStatement

\* A value of the precomputed tier: the raw field when it is present, 0
\* included, the statement's field when it is absent
RawOrStatement(raw, fromStatement) ==
    IF raw.t = "number" THEN raw ELSE fromStatement

\* C13: in the precomputed tier each of revenue, grossProfit and netIncome is
\* the raw_values field when that field is present, a value of 0 included,
\* and the latest income statement's field when it is absent, each field on
\* its own
C13_RawValueWins ==
    UnitedStatesAnswer =>
        \A k \in 1..Len(Answered) :
            LET e == Answered[k]
            IN  InPrecomputedTier(e) =>
                    LET raw == TheDoc(valuation_metrics, e.ticker).raw_values
                        s == LatestStatementOf(e.ticker)
                    IN  /\ e.financials.revenue
                             = RawOrStatement(raw.current_revenue, s.revenue)
                        /\ e.financials.grossProfit
                             = RawOrStatement(raw.current_grossProfit,
                                              s.grossProfit)
                        /\ e.financials.netIncome
                             = RawOrStatement(raw.current_netIncome,
                                              s.netIncome)

\* ------------------------------------------------------------------------
\* C14

\* A multiple of the precomputed tier: null for an absent field, the stored
\* number to 2 decimals otherwise
StoredMultiple(x) == IF x.t = "number" THEN JsFixed2(100 * x.v) ELSE JsNull

\* C14: in the precomputed tier the financials hold all three multiples;
\* each is null exactly when its valuation_multiples_raw field is absent,
\* valuation_multiples_raw itself being absent included, and is otherwise
\* the stored value to 2 decimals, a stored 0 included
C14_StoredMultiples ==
    UnitedStatesAnswer =>
        \A k \in 1..Len(Answered) :
            LET e == Answered[k]
            IN  InPrecomputedTier(e) =>
                    LET mult == TheDoc(valuation_metrics, e.ticker)
                                    .valuation_multiples_raw
                        f == e.financials
                    IN  /\ {"marketCapToRevenueMultiple",
                            "marketCapToNetIncomeMultiple",
                            "marketCapToGrossProfitMultiple"} \subseteq DOMAIN f
                        /\ ~mult.has =>
                             /\ f.marketCapToRevenueMultiple = JsNull
                             /\ f.marketCapToNetIncomeMultiple = JsNull
                             /\ f.marketCapToGrossProfitMultiple = JsNull
                        /\ f.marketCapToRevenueMultiple
                             = StoredMultiple(mult.marketcap_to_revenue)
                        /\ f.marketCapToNetIncomeMultiple
                             = StoredMultiple(mult.marketcap_to_netincome)
                        /\ f.marketCapToGrossProfitMultiple
                             = StoredMultiple(mult.marketcap_to_grossprofit)

\* A stored multiple of 0 beside an absent one and a stored 7
C14_Witness ==
    /\ UnitedStatesAnswer
    /\ \E k \in 1..Len(Answered) :
        LET e == Answered[k]
        IN  /\ InPrecomputedTier(e)
            /\ LET mult == TheDoc(valuation_metrics, e.ticker)
                               .valuation_multiples_raw
               IN  /\ mult.has
                   /\ mult.marketcap_to_revenue = JsNum(0)
                   /\ mult.marketcap_to_netincome = JsUndefined
                   /\ mult.marketcap_to_grossprofit = JsNum(7)
            /\ e.financials.marketCapToRevenueMultiple = JsFixed2(0)
            /\ e.financials.marketCapToNetIncomeMultiple = JsNull
            /\ e.financials.marketCapToGrossProfitMultiple = JsFixed2(700)

\* ------------------------------------------------------------------------
\* C15

\* The precondition of the precomputed tier: a ValuationMetrics document of
\* the ticker with growth_metrics or raw_values
PrecomputedPrecondition(ticker) ==
    /\ DocsOf(valuation_metrics, ticker) # {}
    /\ \/ TheDoc(valuation_metrics, ticker).growth_metrics.has
       \/ TheDoc(valuation_metrics, ticker).raw_values.has

HasLatestStatement(ticker) ==
    NonEmpty(FinancialDataOf(ticker).hasIncome,
             FinancialDataOf(ticker).income_statement)

HasLatestMarketCap(ticker) ==
    NonEmpty(FinancialDataOf(ticker).hasMarketCap,
             FinancialDataOf(ticker).market_cap)

\* x is the quotient marketCap / d to 2 decimals: the nearest hundredth
IsQuotient(x, marketCap, d) ==
    /\ x.t = "fixed2"
    /\ 2 * Abs(100 * marketCap.v - x.v * d.v) <= Abs(d.v)

\* A multiple of the derived tier: null when the denominator is 0 or absent,
\* otherwise the quotient, which is to 2 decimals when marketCap is a number
IsDerivedMultiple(x, marketCap, d) ==
    IF d.t = "number" /\ d.v # 0
    THEN /\ x # JsNull
         /\ marketCap.t = "number" => IsQuotient(x, marketCap, d)
    ELSE x = JsNull

\* C15: a company is enriched by the derived tier exactly when the
\* precondition of the precomputed tier fails and both a latest income
\* statement and a latest market cap exist; each of its multiples is then
\* marketCap divided by its own denominator to 2 decimals when the
\* denominator is present and not 0, and null otherwise; with only one of
\* the two latest entries there are no financials
C15_DerivedTier ==
    UnitedStatesAnswer =>
        \A k \in 1..Len(Answered) :
            LET e == Answered[k]
                both == HasLatestStatement(e.ticker)
                        /\ HasLatestMarketCap(e.ticker)
                one == HasLatestStatement(e.ticker)
                       # HasLatestMarketCap(e.ticker)
            IN  /\ InDerivedTier(e)
                     <=> (~PrecomputedPrecondition(e.ticker) /\ both)
                /\ (~PrecomputedPrecondition(e.ticker) /\ one)
                     => ~HasFinancials(e)
                /\ InDerivedTier(e) =>
                    LET f == e.financials
                    IN  /\ IsDerivedMultiple(f.marketCapToNetIncomeMultiple,
                                             f.marketCap, f.netIncome)
                        /\ IsDerivedMultiple(f.marketCapToGrossProfitMultiple,
                                             f.marketCap, f.grossProfit)
                        /\ IsDerivedMultiple(f.marketCapToRevenueMultiple,
                                             f.marketCap, f.revenue)

\* A ValuationMetrics document without growth_metrics and raw_values leaves
\* the company to the derived tier: 8 / 3 is "2.67", 8 / 4 is "2.00" and the
\* absent netIncome gives null
C15_Witness ==
    /\ UnitedStatesAnswer
    /\ \E k \in 1..Len(Answered) :
        LET e == Answered[k]
        IN  /\ e.ticker = "T1"
            /\ DocsOf(valuation_metrics, "T1") # {}
            /\ InDerivedTier(e)
            /\ e.financials.marketCap = JsNum(8)
            /\ e.financials.grossProfit = JsNum(3)
            /\ e.financials.revenue = JsNum(4)
            /\ e.financials.netIncome = JsUndefined
            /\ e.financials.marketCapToGrossProfitMultiple = JsFixed2(267)
            /\ e.financials.marketCapToRevenueMultiple = JsFixed2(200)
            /\ e.financials.marketCapToNetIncomeMultiple = JsNull

\* ------------------------------------------------------------------------
\* C16

\* The substring of the name before its first "(", the whole name when it
\* has none
UpToFirstParen(name) ==
    LET parens == {i \in 1..Len(name) : name[i] = "("}
    IN  IF parens = {} THEN name
        ELSE SubSeq(name, 1, (CHOOSE i \in parens : \A j \in parens : i <= j) - 1)

\* C16: every string of the 200 response of GET /api/countries is "Unknown"
\* for a region without a name or the trimmed substring before the first "("
\* of a region's name, and none contains "("
C16_BeforeFirstParen ==
    (/\ request.route = CountriesRoute
     /\ Len(responses) = 1
     /\ responses[1].status = 200)
    => LET countries == responses[1].body.countries
           regions == saascompnies.regions
       IN  \A c \in 1..Len(countries) :
             /\ "(" \notin Range(countries[c])
             /\ \E r \in 1..Len(regions) :
                  IF Falsy(regions[r].name) THEN countries[c] = Unknown
                  ELSE countries[c] = Trim(UpToFirstParen(regions[r].name))

\* ------------------------------------------------------------------------
\* SpecConnect: connectToDatabase step by step, the requests' handlers
\* interleaved at its await

\* A handler calls connectToDatabase: with a cached handle and a ready
\* connection it returns the handle; otherwise it calls mongoose.connect and
\* is suspended until the connection attempt ends.  On a connection that is
\* ready already, mongoose.connect resolves at once.
Call(p) ==
    /\ pending[p] = "idle"
    /\ IF cachedDb /\ readyState = 1
       THEN /\ pending' = [pending EXCEPT ![p] = "connected"]
            /\ UNCHANGED <<readyState, connects>>
       ELSE /\ connects' = connects + 1
            /\ readyState' = IF readyState = 1 THEN 1 ELSE 2
            /\ pending' = [pending EXCEPT
                              ![p] = IF readyState = 1 THEN "resolved"
                                     ELSE "connecting"]
    /\ UNCHANGED <<cachedDb, data, subscriptions, served>>

\* The connection attempt succeeds: every mongoose.connect awaiting it resolves
ConnectionOpens ==
    /\ readyState = 2
    /\ readyState' = 1
    /\ pending' = [p \in Requests |->
                      IF pending[p] = "connecting" THEN "resolved"
                      ELSE pending[p]]
    /\ UNCHANGED <<cachedDb, connects, data, subscriptions, served>>

\* The connection attempt fails: every mongoose.connect awaiting it rejects
ConnectionFails ==
    /\ readyState = 2
    /\ readyState' = 0
    /\ connects' = 0
    /\ pending' = [p \in Requests |->
                      IF pending[p] = "connecting" THEN "rejected"
                      ELSE pending[p]]
    /\ UNCHANGED <<cachedDb, data, subscriptions, served>>

\* connectToDatabase resumes after its await: it caches the client and
\* returns it, or rethrows the error
Resume(p) ==
    /\ pending[p] \in {"resolved", "rejected"}
    /\ IF pending[p] = "resolved"
       THEN /\ cachedDb' = TRUE
            /\ pending' = [pending EXCEPT ![p] = "connected"]
       ELSE /\ pending' = [pending EXCEPT ![p] = "failed"]
            /\ UNCHANGED cachedDb
    /\ UNCHANGED <<readyState, connects, data, subscriptions, served>>

\* The handler goes on to its response and ends
Finish(p) ==
    /\ pending[p] \in {"connected", "failed"}
    /\ pending' = [pending EXCEPT ![p] = "idle"]
    /\ UNCHANGED <<cachedDb, readyState, connects, data, subscriptions, served>>

InitConnect ==
    /\ Started
    /\ EmptySubscriptions
    /\ NothingBefore
    /\ saascompnies = NoDocument
    /\ incomeusa = <<>>
    /\ valuation_metrics = <<>>

NextConnect ==
    \/ \E p \in Requests : Call(p)
    \/ ConnectionOpens
    \/ ConnectionFails
    \/ \E p \in Requests : Resume(p)
    \/ \E p \in Requests : Finish(p)
    \/ Disconnect

SpecConnect == InitConnect /\ [][NextConnect]_vars

\* ------------------------------------------------------------------------
\* C17

\* C17: mongoose.connect is called at most once until a disconnect or a
\* failed attempt, however the requests interleave
C17_ConnectOnce == connects <= 1

\* ------------------------------------------------------------------------
\* SpecPrefix: GET /api/companies/:countryName for prefixes of the United
\* States region's name, over regions with a flat list, categories or both

USRegionBoth ==
    Region(NameUS, "NYSE/NASDAQ", TRUE, <<Company("T1"), Company("T2")>>, TRUE,
           <<Category("CRM", "array", <<Company("T2")>>)>>)

ReqU == <<"U">>

InitPrefix ==
    /\ Started
    /\ EmptySubscriptions
    /\ NothingBefore
    /\ \E r \in {USRegion, USRegionFlat, USRegionBoth} :
          saascompnies \in {SaasDocument(<<IndiaRegion, r>>), SaasDocument(<<r>>)}
    /\ incomeusa \in {<<>>, <<FinancialDocT1, FinancialDocT2>>}
    /\ valuation_metrics \in {<<>>, <<ValuationDocT1>>}

NextPrefix ==
    \/ GetCompanies({ReqU, ReqUnited, UnitedStates, NameUS, ReqIndia},
                    {NoCategory, "CRM", All}, {NoFail})
    \/ Disconnect

SpecPrefix == InitPrefix /\ [][NextPrefix]_vars

\* ------------------------------------------------------------------------
\* C18

\* C18: whether the request is handled as the United States is decided by
\* countryName starting with "United States".  A countryName that does not,
\* and still is a prefix of a region's name, is answered 200 with the flat
\* companies list of the first such region as it is stored, empty when the
\* region has none, whatever the category parameter, and no company gets
\* financials; a countryName that does is answered from the categories
C18_RequestStringDecides ==
    (/\ request.route = CompaniesRoute
     /\ request.fail = NoFail
     /\ Matching # {})
    => /\ ~IsPrefix(UnitedStates, request.countryName) =>
            /\ Len(responses) = 1
            /\ responses[1].status = 200
            /\ Answered = IF FirstMatching.hasCompanies
                          THEN FirstMatching.companies
                          ELSE <<>>
            /\ \A k \in 1..Len(Answered) : ~HasFinancials(Answered[k])
       /\ (UnitedStatesAnswer /\ request.category \in {NoCategory, All}) =>
            [k \in 1..Len(Answered) |-> Answered[k].ticker]
              = [k \in 1..Len(Concatenated(FirstMatching.categories)) |->
                    Concatenated(FirstMatching.categories)[k].ticker]

\* "United" with category CRM finds the United States region, which holds a
\* flat list beside its categories: the flat list is answered, and T1 gets no
\* financials although both collections hold its documents
C18_Witness ==
    /\ request.route = CompaniesRoute
    /\ request.countryName = ReqUnited
    /\ request.category = "CRM"
    /\ Matching # {}
    /\ FirstMatching = USRegionBoth
    /\ DocsOf(incomeusa, "T1") # {}
    /\ DocsOf(valuation_metrics, "T1") # {}
    /\ Len(responses) = 1
    /\ responses[1].status = 200
    /\ Answered = <<Company("T1"), Company("T2")>>

\* ------------------------------------------------------------------------
\* C19

\* null, or the string toFixed(2) returns for a finite number
NullOrFinite(x) == x = JsNull \/ x.t = "fixed2"

\* C19: every multiple of the derived tier is null or a finite number to 2
\* decimals, also when the latest market_cap entry has a marketCap of 0 or
\* none
C19_NoNaN ==
    UnitedStatesAnswer =>
        \A k \in 1..Len(Answered) :
            LET e == Answered[k]
            IN  InDerivedTier(e) =>
                    /\ NullOrFinite(e.financials.marketCapToRevenueMultiple)
                    /\ NullOrFinite(e.financials.marketCapToNetIncomeMultiple)
                    /\ NullOrFinite(e.financials.marketCapToGrossProfitMultiple)

\* ------------------------------------------------------------------------
\* C20

MetricsFails ==
    {"MetricsNotification.findOne", "MetricsNotification.save",
     "MetricsNotification.updateOne"}

\* The last request set both flags and an operation on the metrics
\* collection failed
MetricsOperationFailed ==
    /\ request.route = SubscribeRoute
    /\ request.notifyAllCountries
    /\ request.notifyMetricsUpdates
    /\ request.fail \in MetricsFails
    /\ request.fail \in Range(dbOps)

\* The all-countries collection after the block of the request has run on
\* the collection `held`: a document of the email is appended when there is
\* none, the phone of the one there is replaced by a phone that differs
AfterAllCountries(held, email, phone) ==
    LET docs == DocsOfEmail(held, email)
        i == CHOOSE d \in docs : \A e \in docs : d <= e
    IN  IF docs = {}
        THEN Append(held, [email |-> [k \in 1..Len(email) |-> LowerChar(email[k])],
                           phone |-> phone])
        ELSE IF phone # Undefined /\ held[i].phone # phone
        THEN [held EXCEPT ![i].phone = phone]
        ELSE held

\* C20: when both flags are set and the operation on the metrics collection
\* fails, the request is answered 500, the metrics collection is as before,
\* and the all-countries collection holds the insert or the phone update of
\* the same request
C20_NotAtomic ==
    MetricsOperationFailed =>
        /\ Len(responses) = 1
        /\ responses[1].status = 500
        /\ metrics_update_subscriptions = before.metrics_update_subscriptions
        /\ notification_subscriptions
             = AfterAllCountries(before.notification_subscriptions,
                                 request.email, request.phone)
        /\ dbOps[Len(dbOps)] = request.fail
        /\ \E k \in 1..Len(dbOps) : dbOps[k] = "Notification.findOne"

\* A known email sends a phone: the all-countries document takes the phone,
\* the update of the metrics document fails, the answer is 500
C20_Witness ==
    /\ MetricsOperationFailed
    /\ request.fail = "MetricsNotification.updateOne"
    /\ request.phone = Phone1
    /\ before.notification_subscriptions
         = <<[email |-> EmailLower, phone |-> Undefined]>>
    /\ notification_subscriptions = <<[email |-> EmailLower, phone |-> Phone1]>>
    /\ metrics_update_subscriptions = <<[email |-> EmailLower, phone |-> Undefined]>>
    /\ Len(responses) = 1
    /\ responses[1].status = 500

\* ------------------------------------------------------------------------
\* SpecRace: POST /api/notifications/subscribe step by step, for requests of
\* one new email with notifyAllCountries set and notifyMetricsUpdates not,
\* interleaved at every await of the handler

\* The body of request p: the email all requests share, a phone of its own
EmailOf(p) == EmailLower

PhoneOf(p) == IF p = 1 THEN Phone1 ELSE IF p = 2 THEN Undefined ELSE Phone2

\* A collection without the unique index: no insert is refused
NoIndex(collection, email) == FALSE

\* The unique index on email: an insert of an email the collection holds is
\* refused with a duplicate key error
DuplicateKey(collection, email) == FindOneByEmail(collection, email) # 0

\* await Notification.findOne({ email }) returns: with a document, the
\* handler goes on to updateOne when the request's phone differs from the
\* document's, and to its 'updated' result otherwise; without one, to save
FindOne(p) ==
    /\ pending[p] = "connected"
    /\ LET i == FindOneByEmail(notification_subscriptions, EmailOf(p))
       IN  pending' =
             [pending EXCEPT
                ![p] = IF i = 0 THEN "saving"
                       ELSE IF ~Falsy(PhoneOf(p))
                               /\ notification_subscriptions[i].phone # PhoneOf(p)
                       THEN "updating"
                       ELSE "updated"]
    /\ UNCHANGED <<cachedDb, readyState, connects, data, subscriptions, served>>

\* await Notification.updateOne({ email }, { phone }) returns
UpdateOne(p) ==
    /\ pending[p] = "updating"
    /\ LET i == FindOneByEmail(notification_subscriptions, EmailOf(p))
       IN  notification_subscriptions' =
             IF i = 0 THEN notification_subscriptions
             ELSE [notification_subscriptions EXCEPT
                      ![i].phone = CastPhone(PhoneOf(p))]
    /\ pending' = [pending EXCEPT ![p] = "updated"]
    /\ UNCHANGED <<cachedDb, readyState, connects, data,
                   metrics_update_subscriptions, served>>

\* await subscription.save() returns or throws: the insert is refused when
\* the index holds the email, and the error reaches the outer catch (500)
Save(p) ==
    /\ pending[p] = "saving"
    /\ IF DuplicateKey(notification_subscriptions, EmailOf(p))
       THEN /\ pending' = [pending EXCEPT ![p] = "failed"]
            /\ UNCHANGED notification_subscriptions
       ELSE /\ notification_subscriptions' =
                 Append(notification_subscriptions,
                        [email |-> CastEmail(EmailOf(p)),
                         phone |-> IF Falsy(PhoneOf(p)) THEN Undefined
                                   ELSE CastPhone(PhoneOf(p))])
            /\ pending' = [pending EXCEPT ![p] = "created"]
    /\ UNCHANGED <<cachedDb, readyState, connects, data,
                   metrics_update_subscriptions, served>>

InitRace ==
    /\ Started
    /\ notification_subscriptions \in EarlierSubscriptions
    /\ metrics_update_subscriptions = <<>>
    /\ before = Snapshot
    /\ saascompnies = NoDocument
    /\ incomeusa = <<>>
    /\ valuation_metrics = <<>>

NextRace ==
    \/ \E p \in Requests : Call(p)
    \/ ConnectionOpens
    \/ \E p \in Requests : Resume(p)
    \/ \E p \in Requests : FindOne(p)
    \/ \E p \in Requests : UpdateOne(p)
    \/ \E p \in Requests : Save(p)

SpecRace == InitRace /\ [][NextRace]_vars

\* ------------------------------------------------------------------------
\* C21

\* How a request ended: 201 with results.allCountries 'created' or 'updated',
\* or 500
Ended == {"created", "updated", "failed"}

Created == {p \in Requests : pending[p] = "created"}

\* C21: of the concurrent requests of one new email at most one reports
\* 'created' and the collection never holds two documents of the email,
\* however their find and save steps interleave; when all have ended, the
\* collection holds exactly one, one request reported 'created' and every
\* other one 'updated' or a 500
C21_OneCreated ==
    /\ Cardinality(Created) <= 1
    /\ Cardinality(DocsOfEmail(notification_subscriptions, EmailLower)) <= 1
    /\ (\A p \in Requests : pending[p] \in Ended) =>
          /\ Cardinality(Created) = 1
          /\ Cardinality(DocsOfEmail(notification_subscriptions, EmailLower)) = 1

\* Two requests found no document; the first saved, the save of the second
\* was refused
C21_Witness ==
    /\ pending[1] = "created"
    /\ pending[2] = "failed"
    /\ pending[3] \in Ended
    /\ Cardinality(DocsOfEmail(notification_subscriptions, EmailLower)) = 1

====
